---- MODULE Spec2Model ----
(***************************************************************************)
(* A model of the hecknsic rules engine: the hex board, the rotation loop, *)
(* the post-rotation check, the cascade, bombs, modes and the saved state. *)
(* Every operator is translated from the JavaScript under src/js.          *)
(*                                                                         *)
(* JavaScript arrays are 0-based, TLA+ sequences 1-based: nbrs[i] of the   *)
(* source is nbrs[i+1] here.  A grid is a function from <<col,row>> to a   *)
(* cell record; the JavaScript null slot is the record Empty.              *)
(***************************************************************************)
EXTENDS Integers, Sequences, FiniteSets, TLC

\* ---------------------------------------------------------------- bounds
\* The board of the source is 9 x 9 (constants.js); the model checks a
\* smaller board with a smaller palette.
GRID_COLS == 4
GRID_ROWS == 4
NumColors == 3
\* Player moves (accepted rotations, with their selection) per behaviour.
MaxTurns == 1
\* Mode switches per behaviour.
MaxSwitches == 1
\* Cascade iterations followed per move.
MaxChain == 1
\* Of the tiles one fillEmpty call makes, the first MaxMultPerFill may come out as
\* multipliers (5% chance per tile).
MaxMultPerFill == 1
\* The click is nearest the triangle (hex, nbrs[i], nbrs[i+1]) with i in 0..MaxClickIdx.
MaxClickIdx == 0
\* Refill colours follow (b + s*k) % NumColors with s in 1..MaxStride, and fresh
\* boards (b + s*col + row) % NumColors with s in 1..MaxStride+1.
MaxStride == 1

\* ------------------------------------------------------ program constants
BOMB_INITIAL_TIMER == 15
BOMB_BASE_INTERVAL == 15
BOMB_MIN_INTERVAL == 4
BOMB_SCORE_STEP == 5000
MIN_CLUSTER == 3
\* `delete cell.bombTimer` / a cell created without bombTimer: undefined.
NoTimer == -1

\* ------------------------------------------------------------------ cells
Cell(c, s, t) == [colorIndex |-> c, special |-> s, bombTimer |-> t]
Reg(c) == Cell(c, "none", NoTimer)
Mult(c) == Cell(c, "multiplier", NoTimer)
Bomb(c, t) == Cell(c, "bomb", t)
Starflower == Cell(-1, "starflower", NoTimer)
BlackPearl == Cell(-2, "blackpearl", NoTimer)
\* grid[c][r] === null
Empty == Cell(-3, "empty", NoTimer)
IsNull(x) == x.special = "empty"

Pos == (0 .. GRID_COLS - 1) \X (0 .. GRID_ROWS - 1)
\* The order of `for c ... for r ...` scans.
ScanOrder == [k \in 1 .. GRID_COLS * GRID_ROWS |->
                <<(k - 1) \div GRID_ROWS, (k - 1) % GRID_ROWS>>]
ScanIndex(p) == p[1] * GRID_ROWS + p[2] + 1
SeqRange(s) == {s[i] : i \in 1 .. Len(s)}
MaxOf(a, b) == IF a >= b THEN a ELSE b
MinOf(a, b) == IF a <= b THEN a ELSE b
\* The function f as a table: TLC keeps [x \in S |-> e] unevaluated until it is
\* compared, and would otherwise re-evaluate e at every application.
Table(f) == IF f = f THEN f ELSE f

\* --------------------------------------------------------------- hex-math
NEIGHBORS_EVEN == << <<1, 0>>, <<1, -1>>, <<0, -1>>, <<-1, -1>>, <<-1, 0>>, <<0, 1>> >>
\* The even-column table used for odd columns too.
NEIGHBORS_ODD_asEven == NEIGHBORS_EVEN
NEIGHBORS_ODD == << <<1, 1>>, <<1, 0>>, <<0, -1>>, <<-1, 0>>, <<-1, 1>>, <<0, 1>> >>

inBounds(h) == h[1] >= 0 /\ h[1] < GRID_COLS /\ h[2] >= 0 /\ h[2] < GRID_ROWS

neighborsOf(col, row) ==
  LET table == IF col % 2 = 1 THEN NEIGHBORS_ODD ELSE NEIGHBORS_EVEN
  IN Table([i \in 1 .. 6 |-> <<col + table[i][1], row + table[i][2]>>])

\* The neighbours of the board's hexes, computed once.
BoardNeighbors == Table([p \in Pos |-> neighborsOf(p[1], p[2])])

getNeighbors(col, row) ==
  IF inBounds(<<col, row>>) THEN BoardNeighbors[<<col, row>>] ELSE neighborsOf(col, row)

\* A click outside the board.
OffBoard == <<-2, -2>>

\* findClusterAtPixel: among the triangles [center, nbrs[i], nbrs[(i+1)%6]] with all
\* three hexes in bounds, the one whose centroid is nearest the click.  The click is
\* drawn as (hex under the pixel, index i of the triangle it is nearest to); when
\* that triangle leaves the board the nearest remaining one wins, taken here as the
\* next valid index.  <<>> is null: the hex has no triangle on the board.
TriangleAt(hex, i) ==
  LET nbrs == getNeighbors(hex[1], hex[2])
  IN <<hex, nbrs[(i % 6) + 1], nbrs[((i + 1) % 6) + 1]>>

TriangleOk(hex, i) == \A k \in 1 .. 3 : inBounds(TriangleAt(hex, i)[k])

nearestCluster(hex, i) ==
  IF \A d \in 0 .. 5 : ~TriangleOk(hex, i + d) THEN <<>>
  ELSE LET d == CHOOSE x \in 0 .. 5 : /\ TriangleOk(hex, i + x)
                                       /\ \A y \in 0 .. x - 1 : ~TriangleOk(hex, i + y)
       IN TriangleAt(hex, i + d)

\* The answers for every click, computed once.
ClickClusters ==
  Table([c \in (Pos \cup {OffBoard}) \X (0 .. 5) |-> nearestCluster(c[1], c[2])])

findClusterAtPixel(hex, i) == ClickClusters[<<hex, i>>]

\* ------------------------------------------------------------------ board
\* A copy that leaves the bomb timer behind.
CopyData_noTimer(src) ==
  [colorIndex |-> src.colorIndex, special |-> src.special, bombTimer |-> NoTimer]

CopyData(src) ==
  [colorIndex |-> src.colorIndex, special |-> src.special, bombTimer |-> src.bombTimer]

\* A rotation that trades two of the three cells only.
rotateCluster_swap(g, cluster, cw) ==
  [g EXCEPT ![cluster[1]] = CopyData(g[cluster[2]]),
            ![cluster[2]] = CopyData(g[cluster[1]])]

rotateCluster(g, cluster, cw) ==
  IF cw
  THEN [g EXCEPT ![cluster[1]] = CopyData(g[cluster[3]]),
                 ![cluster[3]] = CopyData(g[cluster[2]]),
                 ![cluster[2]] = CopyData(g[cluster[1]])]
  ELSE [g EXCEPT ![cluster[1]] = CopyData(g[cluster[2]]),
                 ![cluster[2]] = CopyData(g[cluster[3]]),
                 ![cluster[3]] = CopyData(g[cluster[1]])]

rotateRing(g, ring, cw) ==
  LET idx(p) == CHOOSE i \in 1 .. 6 : ring[i] = p
      from(i) == IF cw THEN (IF i = 1 THEN 6 ELSE i - 1)
                              ELSE (IF i = 6 THEN 1 ELSE i + 1)
  IN Table([p \in Pos |-> IF p \in SeqRange(ring) THEN CopyData(g[ring[from(idx(p))]])
                                                  ELSE g[p]])

\* The tail of animateYRotation: the three cells of the Y trade places.
yRingOf(center) ==
  LET nbrs == getNeighbors(center[1], center[2]) IN <<nbrs[1], nbrs[3], nbrs[5]>>

\* A Y that trades two of its three cells only.
rotateY_swap(g, yRing, cw) ==
  [g EXCEPT ![yRing[1]] = g[yRing[2]], ![yRing[2]] = g[yRing[1]]]

rotateY(g, yRing, cw) ==
  IF cw
  THEN [g EXCEPT ![yRing[1]] = g[yRing[3]], ![yRing[2]] = g[yRing[1]],
                 ![yRing[3]] = g[yRing[2]]]
  ELSE [g EXCEPT ![yRing[1]] = g[yRing[2]], ![yRing[2]] = g[yRing[3]],
                 ![yRing[3]] = g[yRing[1]]]

axialDirections == << <<1, 0>>, <<0, 1>>, <<1, -1>> >>

\* The cell n steps from (col,row) along an axial direction, in offset coords.
AxialStep(col, row, dir, n) ==
  LET q == col
      rr == row - (col - (col % 2)) \div 2
      nq == q + dir[1] * n
      nr == rr + dir[2] * n
  IN <<nq, nr + (nq - (nq % 2)) \div 2>>

\* The cells findMatches walks from (col,row) in a direction while they are on the
\* board (at most max(cols, rows) of them), computed once.
Ray(p, dir) ==
  LET maxStep == MaxOf(GRID_COLS, GRID_ROWS) - 1
      at(k) == AxialStep(p[1], p[2], dir, k)
      n == CHOOSE k \in 0 .. maxStep :
             (\A j \in 0 .. k : inBounds(at(j))) /\ (k = maxStep \/ ~inBounds(at(k + 1)))
  IN [k \in 1 .. n + 1 |-> at(k - 1)]

Rays == Table([pd \in Pos \X (1 .. 3) |-> Table(Ray(pd[1], axialDirections[pd[2]]))])

\* Only a ray of three or more cells can hold a run of three.
LongRays == {pd \in Pos \X (1 .. 3) : Len(Rays[pd]) >= 3}

\* The length of the run along ray that starts with its first k cells.
RECURSIVE RunLength(_, _, _)
RunLength(g, ray, k) ==
  IF k < Len(ray) /\ ~IsNull(g[ray[k + 1]])
     /\ g[ray[k + 1]].colorIndex = g[ray[1]].colorIndex
  THEN RunLength(g, ray, k + 1)
  ELSE k

\* Line matching that asks for runs of four.
findMatches_four(g) ==
  UNION {LET n == RunLength(g, Rays[pd], 1)
         IN IF n >= 4 THEN {Rays[pd][k] : k \in 1 .. n} ELSE {} :
         pd \in {x \in LongRays : /\ ~IsNull(g[x[1]])
                                  /\ g[x[1]].special # "starflower"
                                  /\ g[x[1]].special # "blackpearl"}}

findMatches(g) ==
  UNION {LET n == RunLength(g, Rays[pd], 1)
         IN IF n >= 3 THEN {Rays[pd][k] : k \in 1 .. n} ELSE {} :
         pd \in {x \in LongRays : /\ ~IsNull(g[x[1]])
                                  /\ g[x[1]].special # "starflower"
                                  /\ g[x[1]].special # "blackpearl"}}

IsBlocker(x) == x.special = "starflower" \/ x.special = "blackpearl"

\* Triangle matching that pairs neighbour i with neighbour i+2.
findTriangleMatches_skip(g) ==
  UNION {LET nbrs == getNeighbors(p[1], p[2])
             B == nbrs[i]
             D == nbrs[((i + 1) % 6) + 1]
         IN IF inBounds(B) /\ inBounds(D) /\ ~IsNull(g[B]) /\ ~IsNull(g[D])
               /\ ~IsBlocker(g[B]) /\ ~IsBlocker(g[D])
               /\ g[B].colorIndex = g[p].colorIndex /\ g[D].colorIndex = g[p].colorIndex
            THEN {p, B, D} ELSE {} :
         p \in {x \in Pos : ~IsNull(g[x]) /\ ~IsBlocker(g[x])},
         i \in 1 .. 6}

findTriangleMatches(g) ==
  UNION {LET nbrs == getNeighbors(p[1], p[2])
             B == nbrs[i]
             D == nbrs[(i % 6) + 1]
         IN IF inBounds(B) /\ inBounds(D) /\ ~IsNull(g[B]) /\ ~IsNull(g[D])
               /\ ~IsBlocker(g[B]) /\ ~IsBlocker(g[D])
               /\ g[B].colorIndex = g[p].colorIndex /\ g[D].colorIndex = g[p].colorIndex
            THEN {p, B, D} ELSE {} :
         p \in {x \in Pos : ~IsNull(g[x]) /\ ~IsBlocker(g[x])},
         i \in 1 .. 6}

\* getActiveMatchMode().matchMode is "line" or "classic" (modes.js).
findMatchesForMode(g, mm) ==
  IF mm = "triangle" THEN findTriangleMatches(g) ELSE findMatches(g)

\* --------------------------------------------------------------- specials
AllNbrs(g, p, Test(_)) ==
  LET nbrs == getNeighbors(p[1], p[2])
  IN \A i \in 1 .. 6 : inBounds(nbrs[i]) /\ Test(g[nbrs[i]])

SfRingCell(x) == ~IsNull(x) /\ x.special # "starflower" /\ x.special # "blackpearl"

\* The test detectStarflowers applies to the cell at p.
IsStarflowerFormation(g, p) ==
  LET nbrs == getNeighbors(p[1], p[2])
  IN /\ ~IsNull(g[p]) /\ g[p].special # "starflower" /\ g[p].special # "blackpearl"
     /\ AllNbrs(g, p, SfRingCell)
     /\ LET ringColor == g[nbrs[1]].colorIndex
        IN /\ ringColor >= 0
           /\ ringColor # g[p].colorIndex
           /\ \A i \in 1 .. 6 : g[nbrs[i]].colorIndex = ringColor

\* The scan of the two board detections, without the hexes that have a neighbour
\* off the board (they fail the six-neighbour test whatever the board holds).
CenterScan ==
  LET Inside(p) == \A i \in 1 .. 6 : inBounds(getNeighbors(p[1], p[2])[i])
  IN SelectSeq(ScanOrder, Inside)

RECURSIVE detectStarflowersFrom(_, _, _)
detectStarflowersFrom(g, k, results) ==
  IF k > Len(CenterScan) THEN [grid |-> g, results |-> results]
  ELSE LET p == CenterScan[k]
       IN IF IsStarflowerFormation(g, p)
          THEN detectStarflowersFrom(
                 [g EXCEPT ![p] = Starflower], k + 1,
                 Append(results, [center |-> p, ring |-> getNeighbors(p[1], p[2]),
                                  ringColor |-> g[getNeighbors(p[1], p[2])[1]].colorIndex]))
          ELSE detectStarflowersFrom(g, k + 1, results)

\* A detection that reports the formations and leaves the board alone.
detectStarflowers_pure(g) == [grid |-> g, results |-> detectStarflowersFrom(g, 1, <<>>).results]

\* detectStarflowers marks each center it finds in place and returns the formations.
detectStarflowers(g) == detectStarflowersFrom(g, 1, <<>>)

IsStar(x) == x.special = "starflower"

IsBlackPearlFormation(g, p) ==
  ~IsNull(g[p]) /\ g[p].special # "blackpearl" /\ AllNbrs(g, p, IsStar)

RECURSIVE detectBlackPearlsFrom(_, _, _)
detectBlackPearlsFrom(g, k, results) ==
  IF k > Len(CenterScan) THEN [grid |-> g, results |-> results]
  ELSE LET p == CenterScan[k]
       IN IF IsBlackPearlFormation(g, p)
          THEN detectBlackPearlsFrom(
                 [g EXCEPT ![p] = BlackPearl], k + 1,
                 Append(results, [center |-> p, ring |-> getNeighbors(p[1], p[2])]))
          ELSE detectBlackPearlsFrom(g, k + 1, results)

detectBlackPearls(g) == detectBlackPearlsFrom(g, 1, <<>>)

\* A gap test that does not compare the colours of the six neighbours.
IsGapFormation_anyColour(g, p, clearedKeys) ==
  LET nbrs == getNeighbors(p[1], p[2])
  IN /\ IsNull(g[p])
     /\ \A i \in 1 .. 6 : /\ inBounds(nbrs[i])
                          /\ ~IsNull(g[nbrs[i]])
                          /\ g[nbrs[i]].special # "starflower"
                          /\ nbrs[i] \notin clearedKeys
     /\ g[nbrs[1]].colorIndex >= 0

\* detectStarflowersAtCleared: a cleared position that is still empty and whose six
\* neighbours are present, not starflowers, not cleared, and of one colour >= 0.
\* A neighbour that is itself a cleared key never counts, so the starflowers the
\* loop places do not influence its later iterations; results are in scan order.
IsGapFormation(g, p, clearedKeys) ==
  LET nbrs == getNeighbors(p[1], p[2])
  IN /\ IsNull(g[p])
     /\ \A i \in 1 .. 6 : /\ inBounds(nbrs[i])
                          /\ ~IsNull(g[nbrs[i]])
                          /\ g[nbrs[i]].special # "starflower"
                          /\ nbrs[i] \notin clearedKeys
     /\ g[nbrs[1]].colorIndex >= 0
     /\ \A i \in 1 .. 6 : g[nbrs[i]].colorIndex = g[nbrs[1]].colorIndex

detectStarflowersAtCleared(g, clearedKeys) ==
  LET hits == {p \in clearedKeys : IsGapFormation(g, p, clearedKeys)}
      InHits(p) == p \in hits
      centers == SelectSeq(ScanOrder, InHits)
  IN [grid |-> Table([p \in Pos |-> IF p \in hits THEN Cell(-1, "starflower", NoTimer)
                                                     ELSE g[p]]),
      results |-> [i \in 1 .. Len(centers) |->
                     [center |-> centers[i],
                      ring |-> getNeighbors(centers[i][1], centers[i][2]),
                      ringColor |-> g[getNeighbors(centers[i][1], centers[i][2])[1]].colorIndex]]]

\* A tick that takes two moves off every timer.
tickBombs_twice(g) ==
  LET ticked == [p \in Pos |-> IF ~IsNull(g[p]) /\ g[p].special = "bomb"
                                THEN [g[p] EXCEPT !.bombTimer = g[p].bombTimer - 2]
                                ELSE g[p]]
  IN [grid |-> ticked,
      expired |-> \E p \in Pos : /\ ~IsNull(ticked[p]) /\ ticked[p].special = "bomb"
                                 /\ ticked[p].bombTimer <= 0]

\* tickBombs: every bomb's timer goes down by one; expired when one is <= 0.
tickBombs(g) ==
  LET ticked == Table([p \in Pos |-> IF ~IsNull(g[p]) /\ g[p].special = "bomb"
                                      THEN [g[p] EXCEPT !.bombTimer = g[p].bombTimer - 1]
                                      ELSE g[p]])
  IN [grid |-> ticked,
      expired |-> \E p \in Pos : /\ ~IsNull(ticked[p]) /\ ticked[p].special = "bomb"
                                 /\ ticked[p].bombTimer <= 0]

\* Connected component of multiplier cells around the cells of S.
IsMultiplier(x) == ~IsNull(x) /\ x.special = "multiplier"

RECURSIVE GrowCluster(_, _)
GrowCluster(g, S) ==
  LET next == S \cup {n \in Pos : /\ IsMultiplier(g[n])
                                  /\ \E q \in S : n \in SeqRange(getNeighbors(q[1], q[2]))}
  IN IF next = S THEN S ELSE GrowCluster(g, next)

detectMultiplierClusters(g) ==
  {cl \in {GrowCluster(g, {p}) : p \in {x \in Pos : IsMultiplier(g[x])}} :
     Cardinality(cl) >= MIN_CLUSTER}

\* ----------------------------------------------------- gravity and refill
NotNull(x) == ~IsNull(x)

\* A settle that drops nothing: the new tiles are put where the gaps are.
applyGravity_none(g) == g

applyGravity(g) ==
  LET column(c) == SelectSeq([r \in 1 .. GRID_ROWS |-> g[<<c, r - 1>>]], NotNull)
  IN Table([p \in Pos |->
              LET kept == column(p[1])
                  gap == GRID_ROWS - Len(kept)
              IN IF p[2] < gap THEN Empty ELSE kept[p[2] - gap + 1]])

\* The positions fillEmpty fills, in scan order.
EmptySlots(g) == LET IsGap(p) == IsNull(g[p]) IN SelectSeq(ScanOrder, IsGap)

\* A refill that makes a bomb of every new tile.
fillWith_allBombs(g, colors, mults, pick, spawnBomb) ==
  LET filled == EmptySlots(g)
      k(p) == CHOOSE i \in 1 .. Len(filled) : filled[i] = p
  IN Table([p \in Pos |->
              IF ~IsNull(g[p]) THEN g[p]
              ELSE IF spawnBomb /\ Len(filled) > 0
                   THEN Cell(colors[k(p)], "bomb", BOMB_INITIAL_TIMER)
                   ELSE Cell(colors[k(p)], IF p \in mults THEN "multiplier" ELSE "none",
                             NoTimer)])

\* One outcome of fillEmpty for the random draws (colour of each new tile, which
\* new tiles are multipliers, which new tile becomes the bomb).
fillWith(g, colors, mults, pick, spawnBomb) ==
  LET filled == EmptySlots(g)
      k(p) == CHOOSE i \in 1 .. Len(filled) : filled[i] = p
  IN Table([p \in Pos |->
              IF ~IsNull(g[p]) THEN g[p]
              ELSE IF spawnBomb /\ Len(filled) > 0 /\ filled[pick] = p
                   THEN Cell(colors[k(p)], "bomb", BOMB_INITIAL_TIMER)
                   ELSE Cell(colors[k(p)], IF p \in mults THEN "multiplier" ELSE "none",
                             NoTimer)])

\* Colour draws that leave the palette.
ColorDraws_offPalette(n) == {[i \in 1 .. n |-> NumColors]}

\* The colour draws the model follows: the k-th new tile gets (b + s*k) % NumColors.
ColorDraws(n) ==
  {[i \in 1 .. n |-> (b + s * (i - 1)) % NumColors] :
     b \in 0 .. NumColors - 1, s \in 1 .. MaxStride}

\* A refill that fills nothing.
fillEmpty_none(g, spawnBomb) == {g}

\* Every grid fillEmpty(grid, ..., spawnBomb) can leave.
fillEmpty(g, spawnBomb) ==
  LET filled == EmptySlots(g)
      n == Len(filled)
  IN {fillWith(g, colors, mults, pick, spawnBomb) :
        colors \in ColorDraws(n),
        mults \in SUBSET {filled[k] : k \in 1 .. MinOf(n, MaxMultPerFill)},
        pick \in IF spawnBomb /\ n > 0 THEN 1 .. n ELSE {1}}

\* ------------------------------------------------------------------ score
RECURSIVE Pow(_, _)
Pow(b, e) == IF e = 0 THEN 1 ELSE b * Pow(b, e - 1)

\* A base table that pays ten points a cell for every size.
SCORE_BASE_flat(matchSize) == matchSize * 10

SCORE_BASE(matchSize) ==
  IF matchSize = 3 THEN 5
  ELSE IF matchSize = 4 THEN 10
  ELSE IF matchSize = 5 THEN 20
  ELSE matchSize * 10

\* awardMatch: Math.round(base * 1.5^chainLevel * bonusMultiplier), with the bonus
\* given in halves (bonus2 = 2 * bonusMultiplier); Math.round rounds halves up.
awardPoints(matchSize, bonus2, chain) ==
  LET num == SCORE_BASE(matchSize) * Pow(3, chain) * bonus2
      den == Pow(2, chain + 1)
  IN (2 * num + den) \div (2 * den)

\* ------------------------------------------------- cascade: pending set
\* A cascade head without the colour nuke.
expandMatches_noNuke(g, initialMatches) ==
  LET clusters == detectMultiplierClusters(g)
      colorsOf(cl) == {g[p].colorIndex : p \in cl}
      merged == initialMatches \cup UNION clusters
      explosionSources == UNION {cl \in clusters : Cardinality(colorsOf(cl)) # 1}
      clusterNukes == UNION {colorsOf(cl) : cl \in {x \in clusters : Cardinality(colorsOf(x)) = 1}}
      live == {p \in merged : ~IsNull(g[p])}
      hasBomb(color) == \E p \in live : g[p].colorIndex = color /\ g[p].special = "bomb"
      hasMult(color) == \E p \in live : g[p].colorIndex = color /\ g[p].special = "multiplier"
      comboNukes == {g[p].colorIndex : p \in {x \in live : /\ hasBomb(g[x].colorIndex)
                                                           /\ hasMult(g[x].colorIndex)}}
      nukeColors == clusterNukes \cup comboNukes
      nuked == {p \in Pos : /\ ~IsNull(g[p]) /\ g[p].colorIndex \in nukeColors
                            /\ g[p].colorIndex >= 0}
      exploded == {n \in Pos : /\ ~IsNull(g[n]) /\ g[n].special # "blackpearl"
                               /\ \E src \in explosionSources :
                                    n \in SeqRange(getNeighbors(src[1], src[2]))}
      SumSizes == LET RECURSIVE Sum(_)
                      Sum(S) == IF S = {} THEN 0
                                ELSE LET x == CHOOSE y \in S : TRUE
                                     IN Cardinality(x) + Sum(S \ {x})
                  IN Sum(clusters)
  IN [matches |-> merged \cup exploded,
      bonus2 |-> 2 + SumSizes + Cardinality({p \in live : g[p].special = "multiplier"})]

\* A cascade head whose explosions take black pearls too.
expandMatches_pearls(g, initialMatches) ==
  LET clusters == detectMultiplierClusters(g)
      colorsOf(cl) == {g[p].colorIndex : p \in cl}
      merged == initialMatches \cup UNION clusters
      explosionSources == UNION {cl \in clusters : Cardinality(colorsOf(cl)) # 1}
      clusterNukes == UNION {colorsOf(cl) : cl \in {x \in clusters : Cardinality(colorsOf(x)) = 1}}
      live == {p \in merged : ~IsNull(g[p])}
      hasBomb(color) == \E p \in live : g[p].colorIndex = color /\ g[p].special = "bomb"
      hasMult(color) == \E p \in live : g[p].colorIndex = color /\ g[p].special = "multiplier"
      comboNukes == {g[p].colorIndex : p \in {x \in live : /\ hasBomb(g[x].colorIndex)
                                                           /\ hasMult(g[x].colorIndex)}}
      nukeColors == clusterNukes \cup comboNukes
      nuked == {p \in Pos : /\ ~IsNull(g[p]) /\ g[p].colorIndex \in nukeColors
                            /\ g[p].colorIndex >= 0}
      exploded == {n \in Pos : /\ ~IsNull(g[n])
                               /\ \E src \in explosionSources :
                                    n \in SeqRange(getNeighbors(src[1], src[2]))}
      SumSizes == LET RECURSIVE Sum(_)
                      Sum(S) == IF S = {} THEN 0
                                ELSE LET x == CHOOSE y \in S : TRUE
                                     IN Cardinality(x) + Sum(S \ {x})
                  IN Sum(clusters)
  IN [matches |-> merged \cup nuked \cup exploded,
      bonus2 |-> 2 + SumSizes + Cardinality({p \in live : g[p].special = "multiplier"})]

\* A cascade head that pays the bonus for every multiplier it clears.
expandMatches_bonusAll(g, initialMatches) ==
  LET clusters == detectMultiplierClusters(g)
      colorsOf(cl) == {g[p].colorIndex : p \in cl}
      merged == initialMatches \cup UNION clusters
      explosionSources == UNION {cl \in clusters : Cardinality(colorsOf(cl)) # 1}
      clusterNukes == UNION {colorsOf(cl) : cl \in {x \in clusters : Cardinality(colorsOf(x)) = 1}}
      live == {p \in merged : ~IsNull(g[p])}
      hasBomb(color) == \E p \in live : g[p].colorIndex = color /\ g[p].special = "bomb"
      hasMult(color) == \E p \in live : g[p].colorIndex = color /\ g[p].special = "multiplier"
      comboNukes == {g[p].colorIndex : p \in {x \in live : /\ hasBomb(g[x].colorIndex)
                                                           /\ hasMult(g[x].colorIndex)}}
      nukeColors == clusterNukes \cup comboNukes
      nuked == {p \in Pos : /\ ~IsNull(g[p]) /\ g[p].colorIndex \in nukeColors
                            /\ g[p].colorIndex >= 0}
      exploded == {n \in Pos : /\ ~IsNull(g[n]) /\ g[n].special # "blackpearl"
                               /\ \E src \in explosionSources :
                                    n \in SeqRange(getNeighbors(src[1], src[2]))}
      SumSizes == LET RECURSIVE Sum(_)
                      Sum(S) == IF S = {} THEN 0
                                ELSE LET x == CHOOSE y \in S : TRUE
                                     IN Cardinality(x) + Sum(S \ {x})
                  IN Sum(clusters)
  IN [matches |-> merged \cup nuked \cup exploded,
      bonus2 |-> 2 + SumSizes + Cardinality({p \in merged \cup nuked \cup exploded :
                                                    g[p].special = "multiplier"})]

\* The head of runCascade: the matches expanded by multiplier clusters, colour
\* nukes and explosions, and the score bonus (in halves).
expandMatches(g, initialMatches) ==
  LET clusters == detectMultiplierClusters(g)
      colorsOf(cl) == {g[p].colorIndex : p \in cl}
      merged == initialMatches \cup UNION clusters
      explosionSources == UNION {cl \in clusters : Cardinality(colorsOf(cl)) # 1}
      clusterNukes == UNION {colorsOf(cl) : cl \in {x \in clusters : Cardinality(colorsOf(x)) = 1}}
      live == {p \in merged : ~IsNull(g[p])}
      hasBomb(color) == \E p \in live : g[p].colorIndex = color /\ g[p].special = "bomb"
      hasMult(color) == \E p \in live : g[p].colorIndex = color /\ g[p].special = "multiplier"
      comboNukes == {g[p].colorIndex : p \in {x \in live : /\ hasBomb(g[x].colorIndex)
                                                           /\ hasMult(g[x].colorIndex)}}
      nukeColors == clusterNukes \cup comboNukes
      nuked == {p \in Pos : /\ ~IsNull(g[p]) /\ g[p].colorIndex \in nukeColors
                            /\ g[p].colorIndex >= 0}
      exploded == {n \in Pos : /\ ~IsNull(g[n]) /\ g[n].special # "blackpearl"
                               /\ \E src \in explosionSources :
                                    n \in SeqRange(getNeighbors(src[1], src[2]))}
      SumSizes == LET RECURSIVE Sum(_)
                      Sum(S) == IF S = {} THEN 0
                                ELSE LET x == CHOOSE y \in S : TRUE
                                     IN Cardinality(x) + Sum(S \ {x})
                  IN Sum(clusters)
  IN [matches |-> merged \cup nuked \cup exploded,
      bonus2 |-> 2 + SumSizes + Cardinality({p \in live : g[p].special = "multiplier"})]

\* ------------------------------------------------------------ createGrid
\* createGrid draws every colour at random and re-rolls the cells of initial
\* runs; the model follows the striped boards (b + s*col + row) % NumColors that
\* come out of it with no run of three (b = 0: the others are renamings).
StripedBoard(b, s) == Table([p \in Pos |-> Reg((b + s * p[1] + p[2]) % NumColors)])

createGrid ==
  {g \in {StripedBoard(0, s) : s \in 1 .. MaxStride + 1} : findMatches(g) = {}}

AllNull == Table([p \in Pos |-> Empty])

\* ----------------------------------------------------------------- modes
GameModes == {"arcade", "chill"}
MatchModes == {"line", "classic"}
\* Mode tables in which chill has bombs, and in which no mode has game over.
hasBombs_always(gm) == TRUE
hasGameOver_never(gm) == FALSE

hasBombs(gm) == gm = "arcade"
hasGameOver(gm) == gm = "arcade"
getCombinedModeId(gm, mm) == <<gm, mm>>
ModeIds == GameModes \X MatchModes

\* --------------------------------------------------------------- storage
\* The per-mode storage main.js imports (key hecknsic_state_{modeId}): one saved
\* record per combined mode id; NoSave is the absent record.
SaveRec(g, moves, sc, chain, combo) ==
  [present |-> TRUE, grid |-> g, moveCount |-> moves, score |-> sc,
   chainLevel |-> chain, comboCount |-> combo]
NoSave ==
  [present |-> FALSE, grid |-> AllNull, moveCount |-> 0, score |-> 0,
   chainLevel |-> 0, comboCount |-> 0]
saveGameState(st, id, rec) == [st EXCEPT ![id] = rec]
loadGameState(st, id) == st[id]
clearGameState(st, id) == [st EXCEPT ![id] = NoSave]

\* ------------------------------------------------------------ game state
VARIABLES grid, state, selectedCluster, flowerCenter, pearlCenter, moveCount,
          bombQueued, score, chainLevel, comboCount, gameMode, matchMode, store,
          pc, step, clockwise, pendingMatches, scoreBonus, sfResults, bpResults, ret,
          preGrid, preMoveCount, checks, hit, turns, resets,
          pendingAction, sessionEnding, menu, pressedIn

\* grid .. store are the module state of main.js, score.js, modes.js and the
\* saved records.  pc is the position of the running async handler ("loop": none
\* is running, the game loop polls input); step, clockwise, pendingMatches,
\* scoreBonus, sfResults, bpResults are its locals and ret is the caller the
\* special-creation animations return to.  preGrid, preMoveCount, checks, hit,
\* turns and resets are history variables: the board and move count when the
\* rotation was accepted, the number of post-rotation checks of the action, the
\* outcome of the last per-step detection, and the numbers of moves and resets.
\* pendingAction is the one-slot input queue of input.js (the click position is
\* kept with a 'select') and sessionEnding says that the End Session explosion
\* is running next to whatever handler pc stands in.  menu is what the page
\* shows over the board: nothing, the logo dropdown or the End Session dialog.
\* pressedIn is a history variable: the state in which the latest click or key
\* arrived.
vars == <<grid, state, selectedCluster, flowerCenter, pearlCenter, moveCount,
          bombQueued, score, chainLevel, comboCount, gameMode, matchMode, store,
          pc, step, clockwise, pendingMatches, scoreBonus, sfResults, bpResults, ret,
          preGrid, preMoveCount, checks, hit, turns, resets,
          pendingAction, sessionEnding, menu, pressedIn>>

selection == <<selectedCluster, flowerCenter, pearlCenter>>
scoreVars == <<score, chainLevel, comboCount>>
modeVars == <<gameMode, matchMode>>
locals == <<step, clockwise, pendingMatches, scoreBonus, sfResults, bpResults, ret>>
history == <<preGrid, preMoveCount, checks, hit, turns, resets>>
uiVars == <<pendingAction, sessionEnding, menu, pressedIn>>

\* let pendingAction = null
NoAction == [type |-> "none", pos |-> <<>>]

NoPos == <<>>
clustersMatch(a, b) ==
  a # <<>> /\ b # <<>> /\ Len(a) = Len(b) /\ SeqRange(b) \subseteq SeqRange(a)

\* What trySelect selects for a click on hex, nearest triangle i.
SelectionAt(g, hex, i) ==
  LET nbrs == getNeighbors(hex[1], hex[2])
      yHexes == <<nbrs[1], nbrs[3], nbrs[5]>>
  IN IF inBounds(hex) /\ g[hex].special = "blackpearl"
        /\ \A k \in 1 .. 3 : inBounds(yHexes[k])
     THEN [cluster |-> <<hex>> \o yHexes, flower |-> NoPos, pearl |-> hex]
     ELSE IF inBounds(hex) /\ g[hex].special = "starflower"
             /\ \A k \in 1 .. 6 : inBounds(nbrs[k])
          THEN [cluster |-> <<hex>> \o nbrs, flower |-> hex, pearl |-> NoPos]
          ELSE [cluster |-> findClusterAtPixel(hex, i), flower |-> NoPos, pearl |-> NoPos]

\* The loop bound of the earlier animateRotation: six steps for a ring.
maxStepsOf_six(flower) == IF flower # NoPos THEN 6 ELSE 3

\* let maxSteps = 3; if (flowerCenter) maxSteps = 1;
maxStepsOf(flower) == IF flower # NoPos THEN 1 ELSE 3

\* The positions one rotation step moves.
rotatingCells(cluster, flower, pearl) ==
  IF flower # NoPos THEN getNeighbors(flower[1], flower[2])
  ELSE IF pearl # NoPos THEN yRingOf(pearl)
  ELSE cluster

\* animateRingRotation / animateYRotation / animateClusterRotation: the grid update.
rotateSelection(g, cluster, flower, pearl, cw) ==
  IF flower # NoPos THEN rotateRing(g, getNeighbors(flower[1], flower[2]), cw)
  ELSE IF pearl # NoPos THEN rotateY(g, yRingOf(pearl), cw)
  ELSE rotateCluster(g, cluster, cw)

\* A loop that stops on matches alone, as it did before specials were detected
\* per step.
detectStep_matchesOnly(g, mm) ==
  [grid |-> g, found |-> findMatchesForMode(g, mm) # {}]

\* The three per-step checks of the rotation loop, run in order on the one grid.
detectStep(g, mm) ==
  LET matches == findMatchesForMode(g, mm)
      sf == detectStarflowers(g)
      bp == detectBlackPearls(sf.grid)
  IN [grid |-> bp.grid,
      found |-> matches # {} \/ sf.results # <<>> \/ bp.results # <<>>]

\* An interval that stops shrinking at 5.
dynamicInterval_min5(sc) == MaxOf(5, BOMB_BASE_INTERVAL - (sc \div BOMB_SCORE_STEP))

\* 15 - floor(score / 5000), at least 4.
dynamicInterval(sc) ==
  MaxOf(BOMB_MIN_INTERVAL, BOMB_BASE_INTERVAL - (sc \div BOMB_SCORE_STEP))

\* applyGravity, then fillEmpty with spawnBomb = mode.hasBombs && bombQueued, then
\* the flag update: every (grid, bombQueued) the three refill sites can leave.
Refill(g, gm, bq) ==
  LET settled == applyGravity(g)
      spawn == hasBombs(gm) /\ bq
      n == Len(EmptySlots(settled))
  IN {[grid |-> f, bombQueued |-> IF spawn /\ n > 0 THEN FALSE ELSE bq] :
        f \in fillEmpty(settled, spawn)}

\* ----------------------------------------------------- game loop: input
\* gameLoop with a pending 'select' action, in state idle or selected.
\* trySelect for a click on hex, and the deselect rules of the game loop.
selectAt(hex, i) ==
  LET sel == SelectionAt(grid, hex, i)
      deselect == state = "selected" /\ clustersMatch(sel.cluster, selectedCluster)
  IN /\ selectedCluster' = IF deselect THEN <<>> ELSE sel.cluster
     /\ flowerCenter' = IF deselect THEN NoPos ELSE sel.flower
     /\ pearlCenter' = IF deselect THEN NoPos ELSE sel.pearl
     /\ state' = IF sel.cluster = <<>> \/ deselect THEN "idle" ELSE "selected"

trySelect(hex, i) ==
  /\ pc = "loop" /\ state \in {"idle", "selected"} /\ turns < MaxTurns
  /\ selectAt(hex, i)
  /\ UNCHANGED <<grid, moveCount, bombQueued, scoreVars, modeVars, store, pc, locals,
                 history>>
  /\ UNCHANGED uiVars

\* gameLoop with a pending rotateCW / rotateCCW action: animateRotation starts.
startRotation(cw) ==
  /\ state' = "rotating" /\ pc' = "rotating"
  /\ step' = 0 /\ clockwise' = cw
  /\ preGrid' = grid /\ preMoveCount' = moveCount /\ checks' = 0 /\ hit' = FALSE
  /\ turns' = turns + 1
  /\ UNCHANGED <<grid, selection, moveCount, bombQueued, scoreVars, modeVars, store,
                 pendingMatches, scoreBonus, sfResults, bpResults, ret, resets>>

animateRotation(cw) ==
  /\ pc = "loop" /\ state = "selected" /\ turns < MaxTurns
  /\ startRotation(cw)
  /\ UNCHANGED uiVars

\* One iteration of the rotation loop: the animated step, then the three checks.
\* The animations read colorIndex of every rotating cell first, which throws on an
\* empty slot: the handler dies and state stays 'rotating'.
rotationStep ==
  /\ pc = "rotating"
  /\ LET cells == rotatingCells(selectedCluster, flowerCenter, pearlCenter)
     IN IF cells = <<>> \/ \E k \in 1 .. Len(cells) : IsNull(grid[cells[k]])
        THEN /\ pc' = "loop"
             /\ UNCHANGED <<grid, step, hit>>
        ELSE LET d == detectStep(rotateSelection(grid, selectedCluster, flowerCenter,
                                                 pearlCenter, clockwise), matchMode)
             IN /\ grid' = d.grid
                /\ step' = step + 1
                /\ hit' = d.found
                /\ pc' = IF d.found \/ step + 1 >= maxStepsOf(flowerCenter)
                         THEN "post" ELSE "rotating"
  /\ UNCHANGED <<state, selection, moveCount, bombQueued, scoreVars, modeVars, store,
                 clockwise, pendingMatches, scoreBonus, sfResults, bpResults, ret,
                 preGrid, preMoveCount, checks, turns, resets>>
  /\ UNCHANGED uiVars

\* A per-move check that lets a match on the rotated board save an expired bomb.
postRotationCheck_matchFirst ==
  /\ pc = "post"
  /\ moveCount' = moveCount + 1
  /\ checks' = checks + 1
  /\ IF hasBombs(gameMode)
     THEN LET t == tickBombs(grid)
          IN /\ grid' = t.grid
             /\ IF t.expired /\ hasGameOver(gameMode)
                   /\ findMatchesForMode(t.grid, matchMode) = {}
                THEN pc' = "over" /\ UNCHANGED bombQueued
                ELSE /\ pc' = "resolve"
                     /\ bombQueued' = (bombQueued
                                        \/ (moveCount + 1) % dynamicInterval(score) = 0)
     ELSE pc' = "resolve" /\ UNCHANGED <<grid, bombQueued>>
  /\ UNCHANGED <<state, selection, scoreVars, modeVars, store, locals,
                 preGrid, preMoveCount, hit, turns, resets>>
  /\ UNCHANGED uiVars

\* postRotationCheck, house-keeping part: the move is counted, bombs tick, and a
\* bomb may be queued.
postRotationCheck ==
  /\ pc = "post"
  /\ moveCount' = moveCount + 1
  /\ checks' = checks + 1
  /\ IF hasBombs(gameMode)
     THEN LET t == tickBombs(grid)
          IN /\ grid' = t.grid
             /\ IF t.expired /\ hasGameOver(gameMode)
                THEN pc' = "over" /\ UNCHANGED bombQueued
                ELSE /\ pc' = "resolve"
                     /\ bombQueued' = (bombQueued
                                        \/ (moveCount + 1) % dynamicInterval(score) = 0)
     ELSE pc' = "resolve" /\ UNCHANGED <<grid, bombQueued>>
  /\ UNCHANGED <<state, selection, scoreVars, modeVars, store, locals,
                 preGrid, preMoveCount, hit, turns, resets>>
  /\ UNCHANGED uiVars

\* handleGameOver(false): the saved record is dropped and the board is blown away.
handleGameOver ==
  /\ pc = "over"
  /\ state' = "gameover"
  /\ store' = clearGameState(store, getCombinedModeId(gameMode, matchMode))
  /\ grid' = AllNull
  /\ pc' = "loop"
  /\ UNCHANGED <<selection, moveCount, bombQueued, scoreVars, modeVars, locals, history>>
  /\ UNCHANGED uiVars

\* A reset that forgets the chain level but keeps the combo count.
resetChain_keepCombo == [chainLevel |-> 0, comboCount |-> 1]

\* resetChain: what it leaves in chainLevel and comboCount.
resetChain == [chainLevel |-> 0, comboCount |-> 0]

\* advanceChain: chainLevel++.
advanceChain(level) == level + 1

saveGame(st, gm, mm, g, moves, sc, chain, combo) ==
  saveGameState(st, getCombinedModeId(gm, mm), SaveRec(g, moves, sc, chain, combo))

\* A move that ends without looking for new matches on the refilled board.
Continue_noSearch(r, g) ==
  LET matches == {}
      endSelected ==
        /\ pc' = "loop" /\ state' = "selected"
        /\ UNCHANGED <<selection, scoreVars>>
        /\ pendingMatches' = {}
        /\ store' = saveGame(store, gameMode, matchMode, g, moveCount, score,
                             chainLevel, comboCount)
      endIdle ==
        /\ pc' = "loop" /\ state' = "idle"
        /\ selectedCluster' = <<>> /\ flowerCenter' = NoPos /\ pearlCenter' = NoPos
        /\ chainLevel' = resetChain.chainLevel /\ comboCount' = resetChain.comboCount
        /\ UNCHANGED score
        /\ pendingMatches' = {}
        /\ store' = saveGame(store, gameMode, matchMode, g, moveCount, score,
                             resetChain.chainLevel, resetChain.comboCount)
      again(level) ==
        /\ level <= MaxChain
        /\ pc' = "cascade" /\ pendingMatches' = matches
        /\ chainLevel' = level
        /\ UNCHANGED <<state, selection, score, comboCount, store>>
  IN IF r = "mid"
     THEN /\ pc' = "gravity"
          /\ UNCHANGED <<state, selection, scoreVars, pendingMatches, store>>
     ELSE IF r = "settle"
     THEN IF matches # {} THEN again(advanceChain(chainLevel))
          ELSE endIdle
     ELSE IF r = "rotSf" /\ matches # {} THEN again(chainLevel)
     ELSE endSelected

\* Where control goes once a refill (or a detection that found nothing) is done,
\* with g the board it leaves: r = "mid" back into runCascade before gravity,
\* "settle" to the end of runCascade (advanceChain, chain reaction or return to
\* postRotationCheck), "rotSf" / "rotBp" to the no-match branches of
\* postRotationCheck.
Continue(r, g) ==
  LET matches == findMatchesForMode(g, matchMode)
      endSelected ==
        /\ pc' = "loop" /\ state' = "selected"
        /\ UNCHANGED <<selection, scoreVars>>
        /\ pendingMatches' = {}
        /\ store' = saveGame(store, gameMode, matchMode, g, moveCount, score,
                             chainLevel, comboCount)
      endIdle ==
        /\ pc' = "loop" /\ state' = "idle"
        /\ selectedCluster' = <<>> /\ flowerCenter' = NoPos /\ pearlCenter' = NoPos
        /\ chainLevel' = resetChain.chainLevel /\ comboCount' = resetChain.comboCount
        /\ UNCHANGED score
        /\ pendingMatches' = {}
        /\ store' = saveGame(store, gameMode, matchMode, g, moveCount, score,
                             resetChain.chainLevel, resetChain.comboCount)
      again(level) ==
        /\ level <= MaxChain
        /\ pc' = "cascade" /\ pendingMatches' = matches
        /\ chainLevel' = level
        /\ UNCHANGED <<state, selection, score, comboCount, store>>
  IN IF r = "mid"
     THEN /\ pc' = "gravity"
          /\ UNCHANGED <<state, selection, scoreVars, pendingMatches, store>>
     ELSE IF r = "settle"
     THEN IF matches # {} THEN again(advanceChain(chainLevel))
          ELSE endIdle
     ELSE IF r = "rotSf" /\ matches # {} THEN again(chainLevel)
     ELSE endSelected

\* postRotationCheck after the house-keeping: cascade, or special births, or back
\* to 'selected'.
postRotationResolve ==
  /\ pc = "resolve"
  /\ LET matches == findMatchesForMode(grid, matchMode)
         sf == detectStarflowers(grid)
         bp == detectBlackPearls(grid)
     IN IF matches # {}
        THEN /\ state' = "cascading" /\ pc' = "cascade"
             /\ pendingMatches' = matches
             /\ UNCHANGED <<grid, selection, scoreVars, store, sfResults, bpResults, ret>>
        ELSE IF sf.results # <<>>
        THEN /\ state' = "cascading" /\ pc' = "sfCreate"
             /\ grid' = sf.grid /\ sfResults' = sf.results /\ ret' = "rotSf"
             /\ UNCHANGED <<selection, scoreVars, store, pendingMatches, bpResults>>
        ELSE IF bp.results # <<>>
        THEN /\ state' = "cascading" /\ pc' = "bpCreate"
             /\ grid' = bp.grid /\ bpResults' = bp.results /\ ret' = "rotBp"
             /\ UNCHANGED <<selection, scoreVars, store, pendingMatches, sfResults>>
        ELSE /\ Continue("rotBp", grid)
             /\ UNCHANGED <<grid, sfResults, bpResults, ret>>
  /\ UNCHANGED <<moveCount, bombQueued, modeVars, step, clockwise, scoreBonus, history>>
  /\ UNCHANGED uiVars

\* ---------------------------------------------------------------- cascade
\* runCascade up to the flash: the pending set and the score bonus.
runCascade ==
  /\ pc = "cascade"
  /\ LET e == expandMatches(grid, pendingMatches)
     IN pendingMatches' = e.matches /\ scoreBonus' = e.bonus2
  /\ pc' = "clear"
  /\ UNCHANGED <<grid, state, selection, moveCount, bombQueued, scoreVars, modeVars,
                 store, step, clockwise, sfResults, bpResults, ret, history>>
  /\ UNCHANGED uiVars

\* runCascade after the flash: score, clear, starflowers in the gaps.
cascadeClear ==
  /\ pc = "clear"
  /\ score' = score + awardPoints(Cardinality(pendingMatches), scoreBonus, chainLevel)
  /\ comboCount' = comboCount + 1
  /\ LET cleared == Table([p \in Pos |-> IF p \in pendingMatches THEN Empty ELSE grid[p]])
         sfMid == detectStarflowersAtCleared(cleared, pendingMatches)
     IN /\ grid' = sfMid.grid
        /\ IF sfMid.results # <<>>
           THEN pc' = "sfCreate" /\ sfResults' = sfMid.results /\ ret' = "mid"
           ELSE pc' = "gravity" /\ UNCHANGED <<sfResults, ret>>
  /\ UNCHANGED <<state, selection, moveCount, bombQueued, chainLevel, modeVars, store,
                 step, clockwise, pendingMatches, scoreBonus, bpResults, history>>
  /\ UNCHANGED uiVars

\* runCascade from "Commit gravity and fill" to its end.
cascadeSettle ==
  /\ pc = "gravity"
  /\ \E f \in Refill(grid, gameMode, bombQueued) :
       LET sf == detectStarflowers(f.grid)
           bp == detectBlackPearls(f.grid)
       IN /\ bombQueued' = f.bombQueued
          /\ IF sf.results # <<>>
             THEN /\ grid' = sf.grid /\ sfResults' = sf.results
                  /\ pc' = "sfCreate" /\ ret' = "settle"
                  /\ UNCHANGED <<state, selection, scoreVars, store, pendingMatches,
                                 bpResults>>
             ELSE IF bp.results # <<>>
             THEN /\ grid' = bp.grid /\ bpResults' = bp.results
                  /\ pc' = "bpCreate" /\ ret' = "settle"
                  /\ UNCHANGED <<state, selection, scoreVars, store, pendingMatches,
                                 sfResults>>
             ELSE /\ grid' = f.grid
                  /\ Continue("settle", f.grid)
                  /\ UNCHANGED <<sfResults, bpResults, ret>>
  /\ UNCHANGED <<moveCount, modeVars, step, clockwise, scoreBonus, history>>
  /\ UNCHANGED uiVars

\* An animation that marks the centers and leaves the rings on the board.
clearRings_keep(g, allRing, centers) ==
  [p \in Pos |-> IF p \in centers /\ ~IsNull(g[p]) /\ p \notin allRing THEN Starflower
                 ELSE g[p]]

\* animateStarflowerCreation, "Clear ring tiles" and the marking of the centers.
clearRings(g, allRing, centers) ==
  [p \in Pos |-> IF p \in allRing THEN Empty
                 ELSE IF p \in centers /\ ~IsNull(g[p]) THEN Starflower
                 ELSE g[p]]

\* animateStarflowerCreation after the flash: the rings are cleared, then every
\* center still present is made a starflower.
animateStarflowerCreation ==
  /\ pc = "sfCreate"
  /\ LET allRing == UNION {SeqRange(sfResults[k].ring) : k \in 1 .. Len(sfResults)}
         centers == {sfResults[k].center : k \in 1 .. Len(sfResults)}
     IN grid' = clearRings(grid, allRing, centers)
  /\ pc' = "sfFill"
  /\ sfResults' = <<>>
  /\ UNCHANGED <<state, selection, moveCount, bombQueued, scoreVars, modeVars, store,
                 step, clockwise, pendingMatches, scoreBonus, bpResults, ret, history>>
  /\ UNCHANGED uiVars

\* The end of animateStarflowerCreation (gravity and fill) and the caller's check
\* for black pearls that follows it.
starflowerRefill ==
  /\ pc = "sfFill"
  /\ \E f \in Refill(grid, gameMode, bombQueued) :
       LET bp == detectBlackPearls(f.grid)
       IN /\ bombQueued' = f.bombQueued
          /\ IF bp.results # <<>>
             THEN /\ grid' = bp.grid /\ bpResults' = bp.results /\ pc' = "bpCreate"
                  /\ UNCHANGED <<state, selection, scoreVars, store, pendingMatches>>
             ELSE /\ grid' = f.grid
                  /\ Continue(ret, f.grid)
                  /\ UNCHANGED bpResults
  /\ UNCHANGED <<moveCount, modeVars, step, clockwise, scoreBonus, sfResults, ret,
                 history>>
  /\ UNCHANGED uiVars

\* An absorption that removes the center together with its ring.
animateBlackPearlCreation_withCenter ==
  /\ pc = "bpCreate"
  /\ LET bp == Head(bpResults)
         marked == IF IsNull(grid[bp.center]) THEN grid
                   ELSE [grid EXCEPT ![bp.center] = BlackPearl]
     IN grid' = [p \in Pos |-> IF p \in SeqRange(bp.ring) \cup {bp.center} THEN Empty
                              ELSE marked[p]]
  /\ bpResults' = Tail(bpResults)
  /\ pc' = IF Len(bpResults) = 1 THEN "bpFill" ELSE "bpCreate"
  /\ UNCHANGED <<state, selection, moveCount, bombQueued, scoreVars, modeVars, store,
                 step, clockwise, pendingMatches, scoreBonus, sfResults, ret, history>>
  /\ UNCHANGED uiVars

\* animateBlackPearlCreation, one pearl of the list: the center (if present) is
\* made a black pearl and its ring of starflowers is removed.
animateBlackPearlCreation ==
  /\ pc = "bpCreate"
  /\ LET bp == Head(bpResults)
         marked == IF IsNull(grid[bp.center]) THEN grid
                   ELSE [grid EXCEPT ![bp.center] = BlackPearl]
     IN grid' = [p \in Pos |-> IF p \in SeqRange(bp.ring) THEN Empty ELSE marked[p]]
  /\ bpResults' = Tail(bpResults)
  /\ pc' = IF Len(bpResults) = 1 THEN "bpFill" ELSE "bpCreate"
  /\ UNCHANGED <<state, selection, moveCount, bombQueued, scoreVars, modeVars, store,
                 step, clockwise, pendingMatches, scoreBonus, sfResults, ret, history>>
  /\ UNCHANGED uiVars

\* The end of animateBlackPearlCreation: gravity and fill.
blackPearlRefill ==
  /\ pc = "bpFill"
  /\ \E f \in Refill(grid, gameMode, bombQueued) :
       /\ bombQueued' = f.bombQueued
       /\ grid' = f.grid
       /\ Continue(ret, f.grid)
  /\ UNCHANGED <<moveCount, modeVars, step, clockwise, scoreBonus, sfResults, bpResults,
                 ret, history>>
  /\ UNCHANGED uiVars

\* ------------------------------------------------------------- UI resets
\* The menu buttons are followed while no handler is running (pc = "loop"); a
\* click that lands in the middle of a rotation or cascade is not followed here.
\* resetBoardForNewMode, after the mode id became (gm, mm) and st is the store.
resetBoardForNewMode(st, gm, mm) ==
  LET saved == loadGameState(st, getCombinedModeId(gm, mm))
  IN /\ bombQueued' = FALSE
     /\ selectedCluster' = <<>> /\ flowerCenter' = NoPos /\ pearlCenter' = NoPos
     /\ IF saved.present
        THEN /\ grid' = saved.grid
             /\ score' = saved.score /\ chainLevel' = saved.chainLevel
             /\ comboCount' = saved.comboCount
             /\ moveCount' = saved.moveCount
        ELSE /\ score' = 0 /\ chainLevel' = 0 /\ comboCount' = 0
             /\ grid' \in createGrid
             /\ moveCount' = 0
     /\ state' = "idle"

gameModeSwitched(newModeId) ==
  /\ newModeId # gameMode
  /\ LET st == saveGame(store, gameMode, matchMode, grid, moveCount, score, chainLevel,
                        comboCount)
     IN store' = st /\ resetBoardForNewMode(st, newModeId, matchMode)
  /\ gameMode' = newModeId
  /\ resets' = resets + 1
  /\ UNCHANGED <<matchMode, pc, locals, preGrid, preMoveCount, checks, hit, turns>>

\* The mode buttons sit in the logo dropdown, which opens on a click the game
\* loop consumes (and which deselects): the state is idle when one is clicked.
switchGameMode(newModeId) ==
  /\ pc = "loop" /\ state = "idle" /\ resets < MaxSwitches
  /\ gameModeSwitched(newModeId)
  /\ UNCHANGED uiVars

matchModeSwitched(newModeId) ==
  /\ newModeId # matchMode
  /\ LET st == saveGame(store, gameMode, matchMode, grid, moveCount, score, chainLevel,
                        comboCount)
     IN store' = st /\ resetBoardForNewMode(st, gameMode, newModeId)
  /\ matchMode' = newModeId
  /\ resets' = resets + 1
  /\ UNCHANGED <<gameMode, pc, locals, preGrid, preMoveCount, checks, hit, turns>>

switchMatchMode(newModeId) ==
  /\ pc = "loop" /\ state = "idle" /\ resets < MaxSwitches
  /\ matchModeSwitched(newModeId)
  /\ UNCHANGED uiVars

\* resetGame, as run by the New Game button.
\* The body of resetGame.
gameReset ==
  /\ score' = 0 /\ chainLevel' = 0 /\ comboCount' = 0
  /\ grid' \in createGrid
  /\ state' = "idle"
  /\ moveCount' = 0
  /\ bombQueued' = FALSE
  /\ selectedCluster' = <<>> /\ flowerCenter' = NoPos /\ pearlCenter' = NoPos

resetGame ==
  /\ pc = "loop" /\ resets < MaxSwitches
  /\ gameReset
  /\ resets' = resets + 1
  /\ UNCHANGED <<modeVars, store, pc, locals, preGrid, preMoveCount, checks, hit, turns>>
  /\ UNCHANGED uiVars

\* The End Session confirmation (offered in chill): handleGameOver(true) up to
\* its animation.
sessionOver ==
  /\ state' = "gameover"
  /\ store' = clearGameState(store, getCombinedModeId(gameMode, matchMode))
  /\ grid' = AllNull

endSession ==
  /\ pc = "loop" /\ resets < MaxSwitches
  /\ gameMode = "chill"
  /\ sessionOver
  /\ pc' = "ending"
  /\ resets' = resets + 1
  /\ UNCHANGED <<selection, moveCount, bombQueued, scoreVars, modeVars, locals,
                 preGrid, preMoveCount, checks, hit, turns>>
  /\ UNCHANGED uiVars

\* handleGameOver(true) after the animation: resetGame().
endSessionReset ==
  /\ pc = "ending"
  /\ gameReset
  /\ pc' = "loop"
  /\ UNCHANGED <<modeVars, store, locals, history>>
  /\ UNCHANGED uiVars

\* ------------------------------------------------------- initial states
\* A board given by its columns (top row first); cells beyond the listed ones
\* follow a striped board.
FromCols(cols) ==
  Table([p \in Pos |-> IF p[1] < Len(cols) /\ p[2] < Len(cols[p[1] + 1])
                       THEN cols[p[1] + 1][p[2] + 1]
                       ELSE StripedBoard(0, 1)[p]])

\* Cells of the saved boards.
A == Reg(0)
B == Reg(1)
C == Reg(2)
SF == Starflower
BP == BlackPearl

\* A fresh board with a bomb of timer t at (1,1).
BombBoard(t) == [StripedBoard(0, 1) EXCEPT ![<<1, 1>>] = Bomb(@.colorIndex, t)]

\* A starflower at (1,1) with its ring on the board; a black pearl at (1,2).
RingBoard == [StripedBoard(0, 1) EXCEPT ![<<1, 1>>] = SF]
PearlBoard == [StripedBoard(0, 1) EXCEPT ![<<1, 2>>] = BP]

\* Five cells of the ring of (1,1) hold colour 0 and the sixth, (2,1), is one
\* rotation away from it.
NearRingBoard ==
  FromCols(<< <<B, A, A, C>>, <<A, C, A, B>>, <<C, B, A, B>>, <<B, A, C, A>> >>)

\* Five cells of the ring of (1,2) hold colour 0 and the sixth hangs over (1,1),
\* which a rotation puts in a run.
NearFlowerBoard ==
  FromCols(<< <<B, C, A, A>>, <<A, B, C, A>>, <<C, B, A, A>>, <<C, B, C, A>> >>)

\* Five starflowers of the ring of (1,2) are in place and the sixth hangs over
\* (1,1), which a rotation puts in a run.
NearPearlBoard ==
  FromCols(<< <<B, C, SF, SF>>, <<SF, A, C, SF>>, <<C, A, SF, SF>>, <<B, A, C, B>> >>)

\* Records an earlier arcade session can have saved: saveGame runs at the end of a
\* move and at a mode switch, both with every position filled.
ArcadeSaves ==
  {SaveRec(StripedBoard(0, 1), 14, 0, 0, 0),
   SaveRec(StripedBoard(0, 2), 3, 55000, 0, 0),
   SaveRec(BombBoard(1), 5, 0, 0, 0),
   SaveRec(BombBoard(3), 5, 0, 0, 0),
   SaveRec(RingBoard, 1, 0, 0, 0),
   SaveRec(PearlBoard, 1, 0, 0, 0),
   SaveRec(NearRingBoard, 1, 0, 0, 0),
   SaveRec(NearFlowerBoard, 1, 0, 0, 0),
   SaveRec(NearPearlBoard, 1, 0, 0, 0)}

\* Records an earlier chill session can have saved.
ChillSaves == {SaveRec(StripedBoard(0, 1), 14, 0, 0, 0)}

ArcadeLine == getCombinedModeId("arcade", "line")
ChillLine == getCombinedModeId("chill", "line")

StoreOf(a, c) ==
  [id \in ModeIds |-> IF id = ArcadeLine THEN a ELSE IF id = ChillLine THEN c ELSE NoSave]

\* What the sessions before this one can have left behind: every record of the
\* mode the game starts in, next to one record of the other mode.
InitialStores(gm) ==
  IF gm = "arcade"
  THEN {StoreOf(a, SaveRec(StripedBoard(0, 1), 14, 0, 0, 0)) : a \in ArcadeSaves \cup {NoSave}}
  ELSE {StoreOf(SaveRec(BombBoard(3), 5, 0, 0, 0), c) : c \in ChillSaves \cup {NoSave}}

\* Startup: the record of the active mode is restored, or a fresh board is made.
Init ==
  /\ gameMode \in GameModes /\ matchMode = "line"
  /\ store \in InitialStores(gameMode)
  /\ LET savedState == loadGameState(store, getCombinedModeId(gameMode, matchMode))
     IN IF savedState.present
        THEN /\ grid = savedState.grid
             /\ score = savedState.score /\ chainLevel = savedState.chainLevel
             /\ comboCount = savedState.comboCount
             /\ moveCount = savedState.moveCount
        ELSE /\ score = 0 /\ chainLevel = 0 /\ comboCount = 0
             /\ grid \in createGrid
             /\ moveCount = 0
  /\ state = "idle"
  /\ selectedCluster = <<>> /\ flowerCenter = NoPos /\ pearlCenter = NoPos
  /\ bombQueued = FALSE
  /\ pc = "loop" /\ step = 0 /\ clockwise = TRUE
  /\ pendingMatches = {} /\ scoreBonus = 2 /\ sfResults = <<>> /\ bpResults = <<>>
  /\ ret = "settle"
  /\ preGrid = grid /\ preMoveCount = moveCount /\ checks = 0 /\ hit = FALSE
  /\ turns = 0 /\ resets = 0
  /\ pendingAction = NoAction /\ sessionEnding = FALSE
  /\ menu = "closed" /\ pressedIn = "idle"

Next ==
  \/ \E hex \in Pos \cup {OffBoard}, i \in 0 .. MaxClickIdx : trySelect(hex, i)
  \/ \E cw \in BOOLEAN : animateRotation(cw)
  \/ rotationStep
  \/ postRotationCheck
  \/ handleGameOver
  \/ postRotationResolve
  \/ runCascade
  \/ cascadeClear
  \/ cascadeSettle
  \/ animateStarflowerCreation
  \/ starflowerRefill
  \/ animateBlackPearlCreation
  \/ blackPearlRefill
  \/ \E newModeId \in GameModes : switchGameMode(newModeId)
  \/ \E newModeId \in MatchModes : switchMatchMode(newModeId)
  \/ resetGame
  \/ endSession
  \/ endSessionReset

Spec == Init /\ [][Next]_vars

\* ================================================================ properties
InMove == pc \notin {"loop", "ending"}
AfterCheck == InMove /\ pc \notin {"rotating", "post"}

\* The three conditions of the rotation loop, each evaluated on the board g.
AnyHit(g) ==
  \/ findMatchesForMode(g, matchMode) # {}
  \/ detectStarflowers(g).results # <<>>
  \/ detectBlackPearls(g).results # <<>>

\* The board one rotation step of the current selection makes of the grid.
Stepped == rotateSelection(grid, selectedCluster, flowerCenter, pearlCenter, clockwise)

\* C1: every iteration of the rotation loop applies one step and then evaluates
\* the three conditions on the stepped board; at the first step after which one
\* of them holds no further step is applied and control goes to the
\* post-rotation check, which runs exactly once for the action.
C1_StopAtFirstHit ==
  /\ [](pc = "rotating" => ~hit /\ checks = 0)
  /\ [](pc = "post" => checks = 0 /\ step >= 1)
  /\ [](AfterCheck => checks = 1)
  /\ [][pc = "rotating" /\ pc' # "loop"
        => /\ step' = step + 1
           /\ hit' = AnyHit(Stepped)
           /\ (hit' => pc' = "post")
           /\ pc' \in {"rotating", "post"}]_vars
  /\ [][pc = "post" => pc' \in {"resolve", "over"} /\ checks' = 1]_vars

\* A cluster rotation stopped by a hit after its first step, the check done.
C1_Witness ==
  pc = "resolve" /\ hit /\ step = 1 /\ flowerCenter = NoPos /\ pearlCenter = NoPos
  /\ checks = 1

InLoop == pc \in {"rotating", "post"}
FullLoopNoHit == pc = "post" /\ ~hit
RingOfFlower == getNeighbors(flowerCenter[1], flowerCenter[2])

SameColorAndSpecial(g, h) ==
  \A p \in Pos : g[p].colorIndex = h[p].colorIndex /\ g[p].special = h[p].special

MarkedBoard == Table([p \in Pos |-> Bomb(ScanIndex(p) % NumColors, ScanIndex(p) + 1)])
RotBoards == {MarkedBoard, NearPearlBoard, BombBoard(3)}

\* Every selection the three rotations can be applied to: a triangle of three
\* board cells, a centre with its six neighbours, a centre with its Y.
RotSelections ==
  {[cluster |-> ClickClusters[<<hex, i>>], flower |-> NoPos, pearl |-> NoPos] :
     hex \in {p \in Pos : ClickClusters[<<p, 0>>] # <<>>}, i \in 0 .. 5}
  \cup {[cluster |-> <<p>> \o getNeighbors(p[1], p[2]), flower |-> p, pearl |-> NoPos] :
          p \in {q \in Pos : \A k \in 1 .. 6 : inBounds(getNeighbors(q[1], q[2])[k])}}
  \cup {[cluster |-> <<p>> \o yRingOf(p), flower |-> NoPos, pearl |-> p] :
          p \in {q \in Pos : \A k \in 1 .. 3 : inBounds(yRingOf(q)[k])}}

InitRot ==
  /\ grid \in RotBoards /\ preGrid = grid
  /\ \E sel \in RotSelections :
       selectedCluster = sel.cluster /\ flowerCenter = sel.flower /\ pearlCenter = sel.pearl
  /\ clockwise \in BOOLEAN /\ step = 0 /\ pc = "rot" /\ state = "rotating"
  /\ moveCount = 0 /\ bombQueued = FALSE /\ score = 0 /\ chainLevel = 0 /\ comboCount = 0
  /\ gameMode = "arcade" /\ matchMode = "line" /\ store = StoreOf(NoSave, NoSave)
  /\ pendingMatches = {} /\ scoreBonus = 2 /\ sfResults = <<>> /\ bpResults = <<>>
  /\ ret = "settle" /\ preMoveCount = 0 /\ checks = 0 /\ hit = FALSE
  /\ turns = 0 /\ resets = 0
  /\ pendingAction = NoAction /\ sessionEnding = FALSE
  /\ menu = "closed" /\ pressedIn = "idle"

\* One single-step rotation of the selection, in the direction chosen.
rotateOnce ==
  /\ pc = "rot" /\ step < 6
  /\ grid' = Stepped
  /\ step' = step + 1
  /\ UNCHANGED <<state, selection, moveCount, bombQueued, scoreVars, modeVars, store,
                 pc, clockwise, pendingMatches, scoreBonus, sfResults, bpResults, ret,
                 preGrid, preMoveCount, checks, hit, turns, resets>>
  /\ UNCHANGED uiVars

NextRot == rotateOnce
SpecRot == InitRot /\ [][NextRot]_vars

\* C4: three single steps on a cluster, six on a ring and three on a Y, all in
\* one direction, give every cell back its colour, special and bomb timer.
C4_FullCycleIdentity ==
  pc = "rot" /\ step = (IF flowerCenter # NoPos THEN 6 ELSE 3) => grid = preGrid

\* The ring of a board whose cells all differ has gone round once, having been
\* out of place on the way.
C4_Witness ==
  /\ pc = "rot" /\ step = 6 /\ flowerCenter # NoPos
  /\ preGrid = MarkedBoard /\ grid = preGrid
  /\ rotateRing(grid, RingOfFlower, clockwise) # grid

RotatingCells == SeqRange(rotatingCells(selectedCluster, flowerCenter, pearlCenter))

IsBomb(x) == x.special = "bomb"
Bombs(g) == {p \in Pos : IsBomb(g[p])}
ResetStep == resets' # resets \/ pc = "ending"

\* C6: the house-keeping runs once per accepted rotation: while the loop runs
\* the move is not yet counted, from the check on it is counted exactly once,
\* and the check itself takes one off every bomb timer in a mode with bombs and
\* changes nothing else on the board; the move count changes nowhere else in a
\* move.
C6_HouseKeepingOnce ==
  /\ [](InLoop => moveCount = preMoveCount)
  /\ [](AfterCheck => moveCount = preMoveCount + 1 /\ checks = 1)
  /\ [][pc = "post"
        => /\ moveCount' = moveCount + 1
           /\ SameColorAndSpecial(grid', grid)
           /\ \A p \in Pos :
                grid'[p].bombTimer =
                  IF gameMode = "arcade" /\ IsBomb(grid[p])
                  THEN grid[p].bombTimer - 1 ELSE grid[p].bombTimer]_vars
  /\ [][moveCount' # moveCount => pc = "post" \/ ResetStep]_vars

\* A move stopped by a hit at its first step has been counted once and has
\* taken the bomb of the board from 3 to 2.
C6_Witness ==
  /\ pc = "resolve" /\ hit /\ step = 1 /\ gameMode = "arcade"
  /\ moveCount = preMoveCount + 1
  /\ \E p \in Pos : IsBomb(grid[p]) /\ grid[p].bombTimer = 2

\* C7: in arcade a tick that leaves a bomb at 0 takes the move to game over;
\* game over by expiry is entered from the tick of an arcade move that left a
\* bomb at 0 and from nowhere else, and never in chill.
C7_ExpiryEndsArcadeGame ==
  /\ [](gameMode = "chill" => pc # "over")
  /\ [][pc = "post" /\ gameMode = "arcade"
        /\ (\E p \in Bombs(grid) : grid[p].bombTimer <= 1) => pc' = "over"]_vars
  /\ [][pc = "over" => state' = "gameover" /\ pc' = "loop"]_vars
  /\ [][pc' = "over" /\ pc # "over"
        => /\ pc = "post" /\ gameMode = "arcade"
           /\ \E p \in Bombs(grid') : grid'[p].bombTimer <= 0]_vars
  /\ [][state' = "gameover" /\ state # "gameover" /\ gameMode = "arcade"
        => pc = "over"]_vars

\* An arcade game ended by the expiry of a bomb.
C7_Witness ==
  /\ state = "gameover" /\ gameMode = "arcade" /\ pc = "loop"
  /\ moveCount = preMoveCount + 1 /\ grid = AllNull

\* p lies in a run of three same-coloured occupied cells along an axial direction.
InLineRun(g, p) ==
  \E pd \in LongRays : \E k \in 1 .. Len(Rays[pd]) - 2 :
    LET w == {Rays[pd][k], Rays[pd][k + 1], Rays[pd][k + 2]}
    IN /\ p \in w
       /\ \A q \in w : ~IsNull(g[q]) /\ g[q].colorIndex = g[p].colorIndex
       /\ g[p].colorIndex >= 0
MatchedBombs(g) == {p \in Bombs(g) : InLineRun(g, p)}

\* C8 as the specification states it: a move that puts a live bomb in a line
\* match does not end in game over.
C8_MatchedBombNeverExpires ==
  [][pc = "post" /\ gameMode = "arcade" /\ matchMode = "line" /\ MatchedBombs(grid) # {}
     => pc' # "over"]_vars

\* C8, amended: a rotation step that puts a live bomb in a line match stops the
\* loop; when the move's tick then leaves no bomb at 0, the bomb is taken into
\* the pending set, which only grows, and is cleared with it; the move does not
\* end in game over.
C8_DefusedUnlessExpired ==
  /\ [][pc = "rotating" /\ pc' # "loop" /\ matchMode = "line" /\ MatchedBombs(Stepped) # {}
        => pc' = "post" /\ MatchedBombs(grid') = MatchedBombs(Stepped)]_vars
  /\ [][pc = "post" /\ gameMode = "arcade"
        /\ (\A p \in Bombs(grid) : grid[p].bombTimer >= 2) => pc' = "resolve"]_vars
  /\ [][pc = "resolve" /\ matchMode = "line" /\ MatchedBombs(grid) # {}
        => pc' = "cascade" /\ MatchedBombs(grid) \subseteq pendingMatches']_vars
  /\ [][pc = "cascade" => pc' = "clear" /\ pendingMatches \subseteq pendingMatches']_vars
  /\ [][pc = "clear" => \A p \in pendingMatches : grid'[p].special \in {"empty", "starflower"}]_vars
  /\ [][pc' = "over" /\ pc # "over" => pc = "post"]_vars

\* The tick is over, the match has fired and a live bomb is in the pending set.
C8_Witness ==
  /\ pc = "clear" /\ gameMode = "arcade" /\ chainLevel = 0
  /\ \E p \in pendingMatches : IsBomb(grid[p]) /\ grid[p].bombTimer >= 1

FillSteps == {"gravity", "sfFill", "bpFill"}
HasEmpty(g) == \E p \in Pos : IsNull(g[p])
\* The interval rule of the per-move check, and what a refill does with the
\* flag: a queued bomb is spawned once by the first refill that fills a cell (a
\* special born on the settled board may turn a bomb into its centre at once).
QueueRule ==
  pc = "post" /\ pc' = "resolve" /\ gameMode = "arcade"
  => bombQueued' = (bombQueued
                     \/ moveCount' % MaxOf(4, 15 - (score \div 5000)) = 0)
SpawnRule ==
  /\ (pc \in FillSteps /\ gameMode = "arcade" /\ bombQueued /\ HasEmpty(grid)
      => /\ ~bombQueued'
         /\ Cardinality(Bombs(grid')) <= Cardinality(Bombs(grid)) + 1
         /\ \/ Cardinality(Bombs(grid')) = Cardinality(Bombs(grid)) + 1
            \/ pc' \in {"sfCreate", "bpCreate"})
  /\ (pc \in FillSteps /\ ~bombQueued
      => Cardinality(Bombs(grid')) <= Cardinality(Bombs(grid)))
  /\ (~bombQueued /\ bombQueued' => pc = "post")

\* C9 as the specification states it: the flag is set by the interval rule and,
\* once set, stays set until a refill that fills a cell, which spawns one bomb
\* and clears it.
C9_QueuedUntilRefill ==
  [][/\ QueueRule
     /\ SpawnRule
     /\ (bombQueued /\ ~bombQueued' => pc \in FillSteps)]_vars

\* C9, amended: the flag is set by the interval rule and, once set, stays set
\* until a refill that fills a cell, which spawns one bomb and clears it, or
\* until a mode switch or New Game, which clear it and spawn nothing.
C9_QueuedUntilRefillOrReset ==
  [][/\ QueueRule
     /\ SpawnRule
     /\ (bombQueued /\ ~bombQueued' => pc \in FillSteps \/ ResetStep)
     /\ (ResetStep /\ state' # "gameover" => ~bombQueued')]_vars

\* The fifteenth move queued a bomb and its refill spawned it.
C9_Witness ==
  /\ gameMode = "arcade" /\ ~bombQueued /\ resets = 0
  /\ preMoveCount = 14 /\ moveCount = 15
  /\ Cardinality({p \in Bombs(grid) : grid[p].bombTimer = BOMB_INITIAL_TIMER}) = 1

ChillIds == {getCombinedModeId("chill", mm) : mm \in MatchModes}

Nulls(g) == {p \in Pos : IsNull(g[p])}

\* The tiles of column c that are on the board, top to bottom.
Survivors(g, c) == SelectSeq([r \in 1 .. GRID_ROWS |-> g[<<c, r - 1>>]], NotNull)

\* Column c of h holds the tiles of g at its bottom, in their order, below new
\* tiles: h is g after gravity and then a refill.
SettledFrom(g, h, c) ==
  LET kept == Survivors(g, c)
      gap == GRID_ROWS - Len(kept)
  IN \A r \in 0 .. GRID_ROWS - 1 :
       /\ ~IsNull(h[<<c, r>>])
       /\ r >= gap => h[<<c, r>>] = kept[r - gap + 1]

\* Expansion only grows the pending set: no score, no change of the board.
ExpandFirst ==
  pc = "cascade" =>
    /\ pc' = "clear" /\ grid' = grid /\ score' = score /\ chainLevel' = chainLevel
    /\ pendingMatches \subseteq pendingMatches'

\* The score is awarded with the clear, for the cells that are cleared; nothing
\* is refilled and the chain level stands; specials in the gaps or gravity follow.
AwardThenClear ==
  pc = "clear" =>
    /\ score' = score + awardPoints(Cardinality(pendingMatches), scoreBonus, chainLevel)
    /\ score' > score
    /\ Nulls(grid') = Nulls(grid) \cup pendingMatches
    /\ \A p \in Pos \ pendingMatches : grid'[p] = grid[p]
    /\ chainLevel' = chainLevel
    /\ pc' = "gravity" \/ (pc' = "sfCreate" /\ ret' = "mid")

\* Gravity, then refill, then the specials of the settled board (starflowers
\* before black pearls), then the chain level goes up and the new matches of the
\* settled board are the next pending set.
SettleLast ==
  pc = "gravity" =>
    /\ Nulls(grid') = {}
    /\ pc' \notin {"sfCreate", "bpCreate"} =>
         \A c \in 0 .. GRID_COLS - 1 : SettledFrom(grid, grid', c)
    /\ pc' = "sfCreate" => sfResults' # <<>> /\ ret' = "settle"
    /\ pc' = "bpCreate" =>
         bpResults' # <<>> /\ ret' = "settle" /\ sfResults' = sfResults
    /\ pc' \in {"sfCreate", "bpCreate"} => chainLevel' = chainLevel
    /\ pc' = "cascade" =>
         /\ chainLevel' = chainLevel + 1
         /\ pendingMatches' = findMatchesForMode(grid', matchMode)
         /\ pendingMatches' # {}
    /\ pc' \in {"sfCreate", "bpCreate", "cascade", "loop"}

\* Outside these steps of a move no tile is removed without the score having
\* been awarded in the step, and no slot is refilled outside a refill.
NoStrayClearOrFill ==
  /\ (InMove /\ Nulls(grid') \ Nulls(grid) # {}) =>
       pc \in {"clear", "sfCreate", "bpCreate", "over"}
  /\ (InMove /\ Nulls(grid) \ Nulls(grid') # {}) => pc \in FillSteps
  /\ (InMove /\ chainLevel' # chainLevel) => pc \in FillSteps

NoSelection == selectedCluster = <<>> /\ flowerCenter = NoPos /\ pearlCenter = NoPos

\* The last iteration of a cascade: the settled board holds no match, and the
\* handler returns.
CascadeEnds ==
  /\ pc \in FillSteps /\ state = "cascading" /\ comboCount > 0 /\ pc' = "loop"

\* C12: when an iteration of a cascade finds no new match the cascade ends with
\* chain level and combo at 0, the selection gone and the phase idle; chain
\* level and combo are 0 whenever the phase is idle or selected, and the first
\* clear of a move is scored at chain level 0.
C12_ChainResetAtEnd ==
  /\ [](state \in {"idle", "selected"} => chainLevel = 0 /\ comboCount = 0)
  /\ [](pc = "clear" /\ comboCount = 0 => chainLevel = 0)
  /\ [][CascadeEnds =>
          /\ findMatchesForMode(grid', matchMode) = {}
          /\ chainLevel' = 0 /\ comboCount' = 0
          /\ NoSelection' /\ state' = "idle"]_vars
  /\ [][(pc \in FillSteps /\ state = "cascading" /\ comboCount > 0
           /\ findMatchesForMode(grid', matchMode) = {}
           /\ pc' \notin {"sfCreate", "bpCreate"}) => pc' = "loop"]_vars

\* A move whose cascade has ended: the game is idle again after one rotation.
C12_Witness ==
  /\ pc = "loop" /\ state = "idle" /\ turns = 1 /\ checks = 1 /\ resets = 0
  /\ chainLevel = 0 /\ comboCount = 0 /\ NoSelection

\* ----------------------------------------------------- births of specials
Starflowers(g) == {p \in Pos : g[p].special = "starflower"}
Pearls(g) == {p \in Pos : g[p].special = "blackpearl"}

\* The rotation loop of this move has converted a centre: rotation steps only
\* permute cells, so a starflower more than before the move was made by the
\* detection of a step.
SfBornByRotation == Cardinality(Starflowers(grid)) > Cardinality(Starflowers(preGrid))

\* C13: when a rotation step has left a centre whose six neighbours share one
\* colour different from its own, the post-rotation check goes on to the
\* starflower creation (the ring is cleared, then gravity and refill) before the
\* move ends.
C13_RotationBirthClearsRing ==
  [][(pc = "resolve" /\ SfBornByRotation /\ findMatchesForMode(grid, matchMode) = {})
       => (pc' = "sfCreate" /\ state' = "cascading")]_vars

\* The rotation loop of this move has converted a centre to a black pearl.
PearlBornByRotation == Cardinality(Pearls(grid)) > Cardinality(Pearls(preGrid))

\* A detection inside the cascade has converted a centre to a black pearl.
PearlBornInCascade ==
  pc \in FillSteps /\ Cardinality(Pearls(grid')) > Cardinality(Pearls(grid))

\* The creation step for the pearl at the head of the list removes its six
\* starflowers and nothing else, and leaves the centre a black pearl.
ConsumesRing ==
  LET bp == Head(bpResults)
  IN /\ Len(bp.ring) = 6
     /\ \A k \in 1 .. 6 : grid[bp.ring[k]] = Starflower
     /\ Nulls(grid') = Nulls(grid) \cup SeqRange(bp.ring)
     /\ grid'[bp.center] = BlackPearl
     /\ \A p \in Pos \ SeqRange(bp.ring) : grid'[p] = grid[p]

\* C14: every birth of a black pearl, after a rotation step or inside a cascade,
\* is followed in the same move by the removal of exactly its six ring
\* starflowers (then gravity and refill); the centre is a black pearl of colour -2.
C14_PearlBirthConsumesRing ==
  [][/\ (pc = "resolve" /\ PearlBornByRotation
           /\ findMatchesForMode(grid, matchMode) = {}) => pc' = "bpCreate"
     /\ PearlBornInCascade => pc' = "bpCreate"
     /\ pc = "bpCreate" => ConsumesRing /\ pc' \in {"bpCreate", "bpFill"}
     /\ pc = "bpFill" => Nulls(grid') = {}]_vars

\* ------------------------------------------------ the detections on their own
MaxCalls == 2

\* Boards for the two detections: the centre (1,1) and the six cells around it
\* vary (the centre a regular cell, a bomb, a starflower or a black pearl; a ring
\* cell a starflower or of colour 0, the first ring cell also of colour 1, a
\* black pearl or missing), three more starflowers stand around (1,2), and the
\* rest is a striped board.
DetectCenter == <<1, 1>>
DetectRing == getNeighbors(1, 1)
DetectBase ==
  [p \in Pos |-> IF p \in {<<0, 3>>, <<1, 3>>, <<2, 3>>} THEN SF
                 ELSE StripedBoard(1, 1)[p]]
DetectBoards ==
  {Table([p \in Pos |-> IF p = DetectCenter THEN mid
                        ELSE IF \E k \in 1 .. 6 : DetectRing[k] = p /\ k \in stars THEN SF
                        ELSE IF p = DetectRing[1] THEN first
                        ELSE IF p \in SeqRange(DetectRing) THEN A
                        ELSE DetectBase[p]]) :
     mid \in {A, B, SF, BP, Bomb(1, 3)}, stars \in SUBSET (1 .. 6),
     first \in {A, B, BP, Empty}}

InitDetect ==
  /\ grid \in DetectBoards /\ preGrid = grid
  /\ ret \in {"sf", "bp"}
  /\ pc = "detect" /\ step = 0 /\ checks = 0 /\ hit = FALSE
  /\ sfResults = <<>> /\ bpResults = <<>>
  /\ selectedCluster = <<>> /\ flowerCenter = NoPos /\ pearlCenter = NoPos
  /\ state = "idle" /\ clockwise = TRUE
  /\ moveCount = 0 /\ bombQueued = FALSE /\ score = 0 /\ chainLevel = 0 /\ comboCount = 0
  /\ gameMode = "arcade" /\ matchMode = "line" /\ store = StoreOf(NoSave, NoSave)
  /\ pendingMatches = {} /\ scoreBonus = 2 /\ preMoveCount = 0
  /\ turns = 0 /\ resets = 0
  /\ pendingAction = NoAction /\ sessionEnding = FALSE
  /\ menu = "closed" /\ pressedIn = "idle"

\* One call of detectStarflowers(grid): preGrid keeps the board it was called on,
\* checks adds up the descriptors returned so far.
callDetectStarflowers ==
  /\ pc = "detect" /\ ret = "sf" /\ step < MaxCalls
  /\ LET d == detectStarflowers(grid)
     IN /\ grid' = d.grid /\ sfResults' = d.results
        /\ hit' = (d.results # <<>>) /\ checks' = checks + Len(d.results)
  /\ preGrid' = grid /\ step' = step + 1
  /\ UNCHANGED <<state, selection, moveCount, bombQueued, scoreVars, modeVars, store,
                 pc, clockwise, pendingMatches, scoreBonus, bpResults, ret,
                 preMoveCount, turns, resets>>
  /\ UNCHANGED uiVars

\* One call of detectBlackPearls(grid).
callDetectBlackPearls ==
  /\ pc = "detect" /\ ret = "bp" /\ step < MaxCalls
  /\ LET d == detectBlackPearls(grid)
     IN /\ grid' = d.grid /\ bpResults' = d.results
        /\ hit' = (d.results # <<>>) /\ checks' = checks + Len(d.results)
  /\ preGrid' = grid /\ step' = step + 1
  /\ UNCHANGED <<state, selection, moveCount, bombQueued, scoreVars, modeVars, store,
                 pc, clockwise, pendingMatches, scoreBonus, sfResults, ret,
                 preMoveCount, turns, resets>>
  /\ UNCHANGED uiVars

NextDetect == callDetectStarflowers \/ callDetectBlackPearls
SpecDetect == InitDetect /\ [][NextDetect]_vars

\* What the last call returned.
LastResults == IF ret = "sf" THEN sfResults ELSE bpResults

C17_DetectionLeavesGrid ==
  /\ (pc = "detect" /\ step >= 1) => grid = preGrid
  /\ (pc = "detect" /\ step = 2) => checks = 2 * Len(LastResults)

\* ------------------------------------------- input queue and menu clicks
\* The game with its input queue and its menu: clicks and keys only set
\* pendingAction, the game loop consumes it according to state, and the buttons
\* of the dropdown and of the End Session dialog act when these are shown.
LogoClick == <<-3, -3>>
ClickHexes == {<<0, 1>>, <<2, 1>>, OffBoard, LogoClick}
RotateTypes == {"rotateCW", "rotateCCW"}
InputActions ==
  {[type |-> "select", pos |-> h] : h \in ClickHexes}
  \cup {[type |-> t, pos |-> <<>>] : t \in RotateTypes}

\* The session starts in either mode, with a record of each mode in the store.
InitInput ==
  /\ gameMode \in GameModes /\ matchMode = "line"
  /\ store = StoreOf(SaveRec(NearFlowerBoard, 1, 0, 0, 0),
                     SaveRec(StripedBoard(0, 1), 14, 0, 0, 0))
  /\ LET savedState == loadGameState(store, getCombinedModeId(gameMode, matchMode))
     IN /\ grid = savedState.grid
        /\ score = savedState.score /\ chainLevel = savedState.chainLevel
        /\ comboCount = savedState.comboCount
        /\ moveCount = savedState.moveCount
  /\ state = "idle"
  /\ selectedCluster = <<>> /\ flowerCenter = NoPos /\ pearlCenter = NoPos
  /\ bombQueued = FALSE
  /\ pc = "loop" /\ step = 0 /\ clockwise = TRUE
  /\ pendingMatches = {} /\ scoreBonus = 2 /\ sfResults = <<>> /\ bpResults = <<>>
  /\ ret = "settle"
  /\ preGrid = grid /\ preMoveCount = moveCount /\ checks = 0 /\ hit = FALSE
  /\ turns = 0 /\ resets = 0
  /\ pendingAction = NoAction /\ sessionEnding = FALSE
  /\ menu = "closed" /\ pressedIn = "idle"

\* An input queue that keeps the action it holds and drops the later one.
press_keepFirst(a) ==
  /\ pendingAction = NoAction
  /\ pendingAction' = a
  /\ pressedIn' = state
  /\ UNCHANGED <<grid, state, selection, moveCount, bombQueued, scoreVars, modeVars,
                 store, pc, locals, history, sessionEnding, menu>>

\* input.js: a click or a key overwrites the pending action.
press(a) ==
  /\ <<pendingAction, pressedIn>> # <<a, state>>
  /\ pendingAction' = a
  /\ pressedIn' = state
  /\ UNCHANGED <<grid, state, selection, moveCount, bombQueued, scoreVars, modeVars,
                 store, pc, locals, history, sessionEnding, menu>>

\* gameLoop: the states in which the pending action is taken out of the queue;
\* the loop does nothing while a dialog pauses the game.
consumesInput_always(st) == st # "gameover"
consumesInput_rotating(st) == st \in {"idle", "selected", "rotating"}
consumesInput(st) == st \in {"idle", "selected"}
frameRuns == menu # "endModal"

\* gameLoop, a 'select' is pending: consumed, trySelect.  A click on the logo
\* toggles the dropdown and selects nothing (the loop then sees the selection
\* it had and deselects); any other click closes the dropdown.
gameLoopSelect ==
  /\ frameRuns /\ consumesInput(state) /\ pendingAction.type = "select"
  /\ IF pendingAction.pos = LogoClick
     THEN /\ menu' = IF menu = "closed" THEN "dropdown" ELSE "closed"
          /\ state' = "idle"
          /\ selectedCluster' = <<>> /\ flowerCenter' = NoPos /\ pearlCenter' = NoPos
     ELSE /\ menu' = "closed"
          /\ selectAt(pendingAction.pos, 0)
  /\ pendingAction' = NoAction
  /\ UNCHANGED <<grid, moveCount, bombQueued, scoreVars, modeVars, store, pc, locals,
                 history, sessionEnding, pressedIn>>

\* gameLoop, state 'selected', a rotation is pending: consumed, animateRotation
\* starts.
gameLoopRotate ==
  /\ frameRuns /\ consumesInput(state) /\ pendingAction.type \in RotateTypes
  /\ state = "selected"
  /\ pc = "loop" /\ turns < MaxTurns
  /\ startRotation(pendingAction.type = "rotateCW")
  /\ pendingAction' = NoAction
  /\ UNCHANGED <<sessionEnding, menu, pressedIn>>

\* gameLoop, state 'idle', a rotation is pending: consumed and dropped.
gameLoopDrop ==
  /\ frameRuns /\ consumesInput(state) /\ pendingAction.type \in RotateTypes
  /\ state # "selected"
  /\ pendingAction' = NoAction
  /\ UNCHANGED <<grid, state, selection, moveCount, bombQueued, scoreVars, modeVars,
                 store, pc, locals, history, sessionEnding, menu, pressedIn>>

\* A click on a mode button of the open dropdown.
clickGameMode(newModeId) ==
  /\ menu = "dropdown" /\ resets < MaxSwitches
  /\ gameModeSwitched(newModeId)
  /\ UNCHANGED uiVars

\* The End Session button is shown in the dropdown in chill only.
endSessionOffered_any(gm) == TRUE
endSessionOffered(gm) == gm = "chill"

\* The End Session button: the dropdown closes, the dialog pauses the game.
clickEndSession ==
  /\ menu = "dropdown" /\ endSessionOffered(gameMode)
  /\ menu' = "endModal"
  /\ UNCHANGED <<grid, state, selection, moveCount, bombQueued, scoreVars, modeVars,
                 store, pc, locals, history, pendingAction, sessionEnding, pressedIn>>

cancelEndSession ==
  /\ menu = "endModal"
  /\ menu' = "closed"
  /\ UNCHANGED <<grid, state, selection, moveCount, bombQueued, scoreVars, modeVars,
                 store, pc, locals, history, pendingAction, sessionEnding, pressedIn>>

\* The confirmation of the dialog: handleGameOver(true) up to its tween.
confirmEndSession ==
  /\ menu = "endModal" /\ resets < MaxSwitches
  /\ sessionOver
  /\ sessionEnding' = TRUE
  /\ menu' = "closed"
  /\ resets' = resets + 1
  /\ UNCHANGED <<selection, moveCount, bombQueued, scoreVars, modeVars, pc, locals,
                 preGrid, preMoveCount, checks, hit, turns, pendingAction, pressedIn>>

\* handleGameOver(true) after its tween: resetGame().
sessionEndReset ==
  /\ sessionEnding
  /\ gameReset
  /\ sessionEnding' = FALSE
  /\ UNCHANGED <<modeVars, store, pc, locals, history, pendingAction, menu, pressedIn>>

\* The boards of InitInput hold no bomb and no ring of starflowers: the bomb
\* expiry and the black-pearl creation are not part of this game.
NextInput ==
  \/ \E a \in InputActions : press(a)
  \/ gameLoopSelect
  \/ gameLoopRotate
  \/ gameLoopDrop
  \/ rotationStep
  \/ postRotationCheck
  \/ postRotationResolve
  \/ runCascade
  \/ cascadeClear
  \/ cascadeSettle
  \/ animateStarflowerCreation
  \/ starflowerRefill
  \/ \E newModeId \in GameModes : clickGameMode(newModeId)
  \/ clickEndSession
  \/ cancelEndSession
  \/ confirmEndSession
  \/ sessionEndReset

SpecInput == InitInput /\ [][NextInput]_vars

\* The game loop takes the pending action out of the queue in this step.
Consumed == pendingAction # NoAction /\ pendingAction' = NoAction

\* C18: from the moment a rotation is accepted until its rotation, its cascades
\* and the births chained to them have finished, the game loop consumes no
\* other select or rotate, the state stays 'rotating' or 'cascading', and no
\* menu button that replaces the board can be pressed: the dropdown and the
\* End Session dialog are closed and no End Session explosion is running.
C18_OneMoveInFlight ==
  /\ [][InMove => ~Consumed]_vars
  /\ [](InMove => /\ state \in {"rotating", "cascading"}
                  /\ menu = "closed" /\ ~sessionEnding)

\* A click made during the cascade is still in the queue while the cascade waits
\* for its fall animation.
C18_Witness ==
  /\ pc = "gravity" /\ state = "cascading"
  /\ pendingAction.type = "select" /\ pressedIn = "cascading"

\* handleGameOver(true) starts in this step.
SessionEnds == ~sessionEnding /\ sessionEnding'

\* C19: End Session is honoured only in chill and takes the session to
\* 'gameover'; it never takes effect while a rotation or cascade is in flight
\* (the board is not emptied and the state not changed underneath the move), and
\* as long as the End Session explosion runs no handler changes the 'gameover'
\* state or the emptied board.
C19_EndSessionAfterCascade ==
  /\ [][SessionEnds => /\ gameMode = "chill" /\ ~InMove
                       /\ state' = "gameover" /\ grid' = AllNull]_vars
  /\ [][InMove => ~SessionEnds]_vars
  /\ [][(sessionEnding /\ sessionEnding') => (state' = "gameover" /\ grid' = grid)]_vars
  /\ [](sessionEnding => ~InMove /\ state = "gameover")

\* The session was ended after a move (rotation and cascade) had completed, by a
\* logo click that arrived while that cascade was running.
C19_Witness ==
  /\ sessionEnding /\ state = "gameover" /\ grid = AllNull
  /\ turns = 1 /\ checks >= 1 /\ pc = "loop"
  /\ pendingAction = NoAction /\ pressedIn = "cascading"

\* What a player action may change.
played == <<grid, selection, score, moveCount, state>>

\* A click or a key arrives in this step.
Arrives == pendingAction' # NoAction /\ <<pendingAction', pressedIn'>> # <<pendingAction, pressedIn>>

\* C20 (as stated): a select or rotate that arrives in state 'rotating',
\* 'cascading' or 'gameover', and a rotate that arrives in state 'idle', changes
\* neither board, selection, score, move count nor state, when it arrives or at
\* any later time.
C20_IgnoredForGood ==
  /\ [][Arrives => UNCHANGED played]_vars
  /\ [][(Consumed /\ pressedIn \in {"rotating", "cascading", "gameover"})
          => UNCHANGED played]_vars
  /\ [][(Consumed /\ pressedIn = "idle" /\ state = "idle"
           /\ pendingAction.type \in RotateTypes) => UNCHANGED played]_vars

\* C20 (amended): a rotate consumed in state 'idle' is dropped without any
\* change; a select or rotate that arrives in state 'rotating', 'cascading' or
\* 'gameover' changes nothing when it arrives and is not consumed in these states:
\* it stays in the queue and is handled, as a select or rotate of that later
\* moment, when the state is 'idle' or 'selected' again.
C20_OutOfPhaseDeferred ==
  /\ [][Arrives => UNCHANGED played]_vars
  /\ [][(Consumed /\ state = "idle" /\ pendingAction.type \in RotateTypes)
          => UNCHANGED played]_vars
  /\ [][state \notin {"idle", "selected"} => ~Consumed]_vars
  /\ [][Consumed => (state \in {"idle", "selected"} /\ ~InMove)]_vars

\* A click that arrived during the cascade has selected a cluster after the move.
C20_Witness ==
  /\ state = "selected" /\ selectedCluster # <<>> /\ pc = "loop" /\ turns = 1
  /\ pendingAction = NoAction /\ pressedIn = "cascading"

\* ------------------------------------------ a cascade level after a refill
\* The refill that ends a post-settle starflower creation is followed by no
\* whole-board detection: the next cascade level starts on whatever the random
\* draws left.  The boards below are such boards: the starflower of that creation
\* has come to rest at (1,3), a run of three multipliers stands in column 3, and
\* (1,1) is surrounded by ring cells of one colour, but for the k-th (k > 0).
MidCenter == <<1, 1>>
MidRing == getNeighbors(1, 1)
MidBoard(xc, rc, oc, k, mc) ==
  LET f == Reg((rc + 1) % NumColors)
      base == FromCols(<< <<f, f, f, f>>, <<f, Reg(xc), f, SF>>, <<f, f, f, f>>,
                          <<Mult(mc), Mult(mc), Mult(mc), f>> >>)
  IN Table([p \in Pos |-> IF \E i \in 1 .. 6 : MidRing[i] = p
                          THEN (IF k > 0 /\ MidRing[k] = p THEN Reg(oc) ELSE Reg(rc))
                          ELSE base[p]])
MidColors == 0 .. NumColors - 1
MidBoards ==
  {MidBoard(xc, rc, oc, k, mc) :
     xc \in MidColors, rc \in MidColors, oc \in MidColors, k \in {0, 1, 4}, mc \in MidColors}

\* runCascade(newMatches) is about to run at chain level 1.
InitMid ==
  /\ grid \in {g \in MidBoards : findMatchesForMode(g, "line") # {}}
  /\ preGrid = grid
  /\ gameMode \in GameModes /\ matchMode = "line"
  /\ store = StoreOf(NoSave, NoSave)
  /\ state = "cascading" /\ pc = "cascade"
  /\ pendingMatches = findMatchesForMode(grid, matchMode)
  /\ selectedCluster = SelectionAt(grid, <<0, 0>>, 0).cluster
  /\ flowerCenter = NoPos /\ pearlCenter = NoPos
  /\ moveCount = 1 /\ bombQueued = FALSE
  /\ score = awardPoints(3, 2, 0) /\ chainLevel = 1 /\ comboCount = 1
  /\ step = 1 /\ clockwise = TRUE
  /\ scoreBonus = 2 /\ sfResults = <<>> /\ bpResults = <<>> /\ ret = "settle"
  /\ preMoveCount = 0 /\ checks = 1 /\ hit = TRUE
  /\ turns = 1 /\ resets = 0
  /\ pendingAction = NoAction /\ sessionEnding = FALSE
  /\ menu = "closed" /\ pressedIn = "idle"

\* One starflower is on these boards: no black pearl is born.
NextMid ==
  \/ runCascade
  \/ cascadeClear
  \/ animateStarflowerCreation
  \/ starflowerRefill
  \/ cascadeSettle

SpecMid == InitMid /\ [][NextMid]_vars

\* The starflower creation that runs is the one of the gaps of this level.
MidBirth == ret = "mid"
RingsOf(results) == UNION {SeqRange(results[k].ring) : k \in 1 .. Len(results)}

\* C15 (as stated): the creation of the starflowers placed in just-cleared gaps
\* leaves their ring cells on the board: they are still there when the gravity
\* step of the iteration runs.
C15_MidBirthKeepsRing ==
  [][(pc = "sfCreate" /\ MidBirth)
       => (pc' # "sfCreate" /\ RingsOf(sfResults) \cap Nulls(grid') = {})]_vars

\* C15 (amended): the creation of the starflowers placed in just-cleared gaps
\* empties their ring cells, and its own gravity and refill then fill the board:
\* when the gravity step of the iteration runs, no cell is empty and the new
\* starflowers are on the board.
C15_MidBirthClearsRing ==
  /\ [][(pc = "sfCreate" /\ MidBirth)
          => /\ pc' = "sfFill"
             /\ RingsOf(sfResults) # {} /\ RingsOf(sfResults) \subseteq Nulls(grid')
             /\ \A k \in 1 .. Len(sfResults) : grid'[sfResults[k].center] = Starflower]_vars
  /\ [][(pc = "sfFill" /\ MidBirth)
          => (pc' = "gravity" /\ Nulls(grid') = {}
              /\ Cardinality(Starflowers(grid')) = Cardinality(Starflowers(grid)))]_vars

\* The iteration's gravity step is reached after a birth in the gap at (1,1).
C15_Witness ==
  /\ pc = "gravity" /\ MidBirth /\ Nulls(grid) = {}
  /\ Cardinality(Starflowers(grid)) = 2

\* ------------------------------------------------------- cell invariants
Palette == 0 .. NumColors - 1
CellInv(x) ==
  /\ (x.special = "starflower") => (x.colorIndex = 0 - 1 /\ x.bombTimer = NoTimer)
  /\ (x.special = "blackpearl") => (x.colorIndex = 0 - 2 /\ x.bombTimer = NoTimer)
  /\ (x.colorIndex = 0 - 1) => (x.special = "starflower")
  /\ (x.colorIndex = 0 - 2) => (x.special = "blackpearl")
  /\ (x.special \in {"none", "multiplier", "bomb"}) => (x.colorIndex \in Palette)
  /\ x.special \in {"none", "multiplier", "bomb", "starflower", "blackpearl"}
LiveBomb(x) == (x.special = "bomb") => (x.bombTimer > 0)

\* C21: in every state of the game (after creation, every rotation step,
\* detection, clear, gravity, refill and tick) every cell on the board is well
\* formed: a starflower has colour -1 and no bomb timer, a black pearl colour -2
\* and no bomb timer, colour -1 and -2 belong to these two only, every other cell
\* has a palette colour, and every bomb has a timer above 0 unless the tick has
\* just found it expired and the game is being ended.
C21_CellInvariants ==
  \A p \in Pos : IsNull(grid[p]) \/ (CellInv(grid[p]) /\ (pc # "over" => LiveBomb(grid[p])))

\* After a move that ticked a bomb and ran a cascade, the board holds the bomb
\* with a lower timer.
C21_Witness ==
  /\ pc = "loop" /\ state = "idle" /\ turns = 1 /\ score > 0
  /\ \E p \in Pos : grid[p].special = "bomb" /\ grid[p].bombTimer < BOMB_INITIAL_TIMER

\* C22: whenever the state is 'idle' or 'selected' every position of the board
\* holds a cell: after cascades, after starflower and black-pearl births and
\* after a rotation that found nothing.
C22_NoGapsAtRest == state \in {"idle", "selected"} => Nulls(grid) = {}

\* A move with a cascade and a starflower birth has ended on a full board.
C22_Witness ==
  /\ state = "idle" /\ pc = "loop" /\ turns = 1 /\ score > 0
  /\ Cardinality(Starflowers(grid)) > Cardinality(Starflowers(preGrid))
  /\ Nulls(grid) = {}

\* ------------------------------------------- the board functions on their own
\* Boards for the calls of board.js and of the head of runCascade: the triangle
\* (1,1), (2,1), (2,2) and the two cells (1,0), (1,2) next to it vary (with (1,1)
\* they make column 1 a line); the other cells have colours 1 and 2 with one run,
\* the top three cells of column 3.
BoardCore == <<(<<1, 1>>), (<<2, 1>>), (<<2, 2>>)>>
BoardSide == <<(<<1, 0>>), (<<1, 2>>)>>
BoardBase == FromCols(<<(<<B, B, C, B>>), (<<A, A, A, B>>), (<<B, A, A, B>>), (<<C, C, C, B>>)>>)
BoardInputs ==
  {Table([p \in Pos |-> IF \E k \in 1 .. 3 : BoardCore[k] = p
                        THEN core[CHOOSE k \in 1 .. 3 : BoardCore[k] = p]
                        ELSE IF \E k \in 1 .. 2 : BoardSide[k] = p
                        THEN side[CHOOSE k \in 1 .. 2 : BoardSide[k] = p]
                        ELSE BoardBase[p]]) :
     core \in [1 .. 3 -> {A, Mult(0), Mult(1), Bomb(0, 3), SF, Empty}],
     side \in [1 .. 2 -> {Mult(0), SF, BP, Empty}]}

InitBoard ==
  /\ grid \in BoardInputs /\ preGrid = grid
  /\ matchMode \in MatchModes
  /\ pc = "call" /\ ret = "none" /\ step = 0 /\ hit = FALSE
  /\ pendingMatches = {} /\ scoreBonus = 2
  /\ selectedCluster = <<>> /\ flowerCenter = NoPos /\ pearlCenter = NoPos
  /\ sfResults = <<>> /\ bpResults = <<>>
  /\ state = "idle" /\ clockwise = TRUE
  /\ moveCount = 0 /\ bombQueued = FALSE /\ score = 0 /\ chainLevel = 0 /\ comboCount = 0
  /\ gameMode = "arcade" /\ store = StoreOf(NoSave, NoSave)
  /\ preMoveCount = 0 /\ checks = 0 /\ turns = 0 /\ resets = 0
  /\ pendingAction = NoAction /\ sessionEnding = FALSE
  /\ menu = "closed" /\ pressedIn = "idle"

\* What a call leaves alone besides the board and its own result.
boardRest ==
  <<state, pearlCenter, moveCount, scoreVars, modeVars, store, clockwise, scoreBonus,
    sfResults, bpResults, preMoveCount, checks, turns, resets>>

\* findMatches(grid): pendingMatches takes the returned set.
callFindMatches ==
  /\ pc = "call"
  /\ pendingMatches' = findMatches(grid)
  /\ ret' = "findMatches" /\ pc' = "returned" /\ preGrid' = grid
  /\ UNCHANGED <<grid, selectedCluster, flowerCenter, bombQueued, hit, step, boardRest>>
  /\ UNCHANGED uiVars

\* findTriangleMatches(grid).
callFindTriangleMatches ==
  /\ pc = "call"
  /\ pendingMatches' = findTriangleMatches(grid)
  /\ ret' = "findTriangleMatches" /\ pc' = "returned" /\ preGrid' = grid
  /\ UNCHANGED <<grid, selectedCluster, flowerCenter, bombQueued, hit, step, boardRest>>
  /\ UNCHANGED uiVars

\* findMatchesForMode(grid) as startCascade calls it: runCascade(matches) follows
\* when the set is not empty.
callFindMatchesForMode ==
  /\ pc = "call"
  /\ pendingMatches' = findMatchesForMode(grid, matchMode)
  /\ ret' = "findMatchesForMode" /\ preGrid' = grid
  /\ pc' = IF pendingMatches' # {} THEN "cascade" ELSE "returned"
  /\ UNCHANGED <<grid, selectedCluster, flowerCenter, bombQueued, hit, step, boardRest>>
  /\ UNCHANGED uiVars

\* applyGravity(grid), once or twice in a row: hit takes the returned flag (a
\* cell was not at its write row: writeRow starts at the bottom and goes up by
\* one per cell kept).
callApplyGravity ==
  /\ pc \in {"call", "settled"} /\ step < MaxCalls
  /\ LET below(p) == Cardinality({r \in p[2] + 1 .. GRID_ROWS - 1 : ~IsNull(grid[<<p[1], r>>])})
         writeRow(p) == GRID_ROWS - 1 - below(p)
     IN hit' = \E p \in Pos : ~IsNull(grid[p]) /\ p[2] # writeRow(p)
  /\ grid' = applyGravity(grid)
  /\ ret' = "applyGravity" /\ pc' = "settled" /\ preGrid' = grid /\ step' = step + 1
  /\ UNCHANGED <<selectedCluster, flowerCenter, bombQueued, pendingMatches, boardRest>>
  /\ UNCHANGED uiVars

\* fillEmpty(grid, ..., spawnBomb), on the board as it is or after applyGravity:
\* selectedCluster takes the returned list of filled positions, bombQueued the
\* argument.
callFillEmpty(spawnBomb) ==
  /\ pc \in {"call", "settled"}
  /\ grid' \in fillEmpty(grid, spawnBomb)
  /\ selectedCluster' = EmptySlots(grid)
  /\ bombQueued' = spawnBomb
  /\ ret' = "fillEmpty" /\ pc' = "returned" /\ preGrid' = grid
  /\ UNCHANGED <<flowerCenter, hit, step, pendingMatches, boardRest>>
  /\ UNCHANGED uiVars

\* getNeighbors(col, row): flowerCenter takes the argument, selectedCluster the
\* returned list.
callGetNeighbors(col, row) ==
  /\ pc = "call"
  /\ flowerCenter' = <<col, row>>
  /\ selectedCluster' = getNeighbors(col, row)
  /\ ret' = "getNeighbors" /\ pc' = "returned" /\ preGrid' = grid
  /\ UNCHANGED <<grid, bombQueued, hit, step, pendingMatches, boardRest>>
  /\ UNCHANGED uiVars

NextBoard ==
  \/ callFindMatches
  \/ callFindTriangleMatches
  \/ callFindMatchesForMode
  \/ callApplyGravity
  \/ \E spawnBomb \in BOOLEAN : callFillEmpty(spawnBomb)
  \/ \E p \in Pos : callGetNeighbors(p[1], p[2])
  \/ runCascade

SpecBoard == InitBoard /\ [][NextBoard]_vars

\* The cell at offset k along direction d from p.
Along(p, d, k) == AxialStep(p[1], p[2], axialDirections[d], k)

\* p is one of three consecutive cells along direction d, all on the board,
\* occupied, of p's colour and none of them a starflower or a black pearl.
InStraightRun(g, p) ==
  \E d \in 1 .. 3, j \in 0 .. 2 :
    \A k \in 0 .. 2 :
      LET q == Along(p, d, k - j)
      IN /\ inBounds(q) /\ ~IsNull(g[q]) /\ ~IsBlocker(g[q])
         /\ g[q].colorIndex = g[p].colorIndex

StraightRunCells(g) == {p \in Pos : ~IsNull(g[p]) /\ InStraightRun(g, p)}

\* The cells of the triples (centre, neighbour i, neighbour i+1) on the board
\* whose three cells are occupied, of one colour, none a starflower or pearl.
TripleCells(g) ==
  UNION {LET nbrs == getNeighbors(p[1], p[2])
             T == {p, nbrs[i], nbrs[(i % 6) + 1]}
         IN IF /\ \A q \in T : inBounds(q)
               /\ \A q \in T : ~IsNull(g[q]) /\ ~IsBlocker(g[q])
                                /\ g[q].colorIndex = g[p].colorIndex
            THEN T ELSE {} : p \in Pos, i \in 1 .. 6}

\* C23: findMatches returns exactly the cells that lie in a straight run of three
\* or more consecutive occupied cells of one colour along an axial direction;
\* no starflower or black pearl is in the result, and the cells of a one-colour
\* triangle that lie in no straight run are not in it.
C23_LineMatchesAreRuns ==
  (pc = "returned" /\ ret = "findMatches") =>
    /\ pendingMatches = StraightRunCells(grid)
    /\ \A p \in pendingMatches : ~IsBlocker(grid[p])
    /\ \A p \in TripleCells(grid) : ~InStraightRun(grid, p) => p \notin pendingMatches

\* A call that found a run holding multipliers, on a board with three
\* starflowers in a row along column 1.
C23_Witness ==
  /\ pc = "returned" /\ ret = "findMatches"
  /\ \E p \in pendingMatches : grid[p].special = "multiplier"
  /\ \A r \in 0 .. 2 : grid[<<1, r>>] = SF

\* Two cells are neighbours: each is in the other's getNeighbors list.
Adjacent(p, q) ==
  /\ q \in SeqRange(getNeighbors(p[1], p[2]))
  /\ p \in SeqRange(getNeighbors(q[1], q[2]))

\* The triples {C, B, D} of the board with B and D consecutive entries of
\* getNeighbors(C), all three occupied, of one colour, none a starflower or pearl.
Triples(g) ==
  {T \in {{p, getNeighbors(p[1], p[2])[i], getNeighbors(p[1], p[2])[(i % 6) + 1]} :
            p \in Pos, i \in 1 .. 6} :
     /\ \A q \in T : inBounds(q)
     /\ \A q \in T : ~IsNull(g[q]) /\ ~IsBlocker(g[q])
     /\ \A q \in T, x \in T : g[q].colorIndex = g[x].colorIndex}

\* C24: findTriangleMatches returns exactly the cells of the triples {C, B, D}
\* of on-board, same-colour cells, none a starflower or black pearl, with B and
\* D consecutive neighbours of C; the three cells of every such triple are
\* pairwise adjacent, and the cells of a straight run that are in no such triple
\* are not in the result.
C24_TriangleMatchesAreTriples ==
  (pc = "returned" /\ ret = "findTriangleMatches") =>
    /\ pendingMatches = UNION Triples(grid)
    /\ \A T \in Triples(grid) :
         Cardinality(T) = 3 /\ \A p \in T, q \in T : p # q => Adjacent(p, q)
    /\ \A p \in StraightRunCells(grid) :
         (\A T \in Triples(grid) : p \notin T) => p \notin pendingMatches

\* A call that found a triangle holding a multiplier, on a board with a straight
\* run none of whose cells is matched.
C24_Witness ==
  /\ pc = "returned" /\ ret = "findTriangleMatches"
  /\ \E p \in pendingMatches : grid[p].special = "multiplier"
  /\ \A r \in 0 .. 2 : <<3, r>> \in StraightRunCells(grid) \ pendingMatches

\* C25: findMatchesForMode returns the line matches of the board when the active
\* match mode is line and the triangle matches when it is the other mode that
\* can be selected.
C25_DispatchByMode ==
  (ret = "findMatchesForMode" /\ pc \in {"returned", "cascade"}) =>
    pendingMatches = (IF matchMode = "line" THEN findMatches(grid)
                                            ELSE findTriangleMatches(grid))

\* The occupied cells of column c from the top down, and the rows they are in.
ColumnCells(g, c) == SelectSeq([r \in 1 .. GRID_ROWS |-> g[<<c, r - 1>>]], NotNull)
ColumnRows(g, c) ==
  LET Occupied(r) == ~IsNull(g[<<c, r>>])
  IN SelectSeq([r \in 1 .. GRID_ROWS |-> r - 1], Occupied)

\* No empty slot lies below an occupied one.
Settled(g) ==
  \A c \in 0 .. GRID_COLS - 1, r \in 0 .. GRID_ROWS - 2 :
    ~IsNull(g[<<c, r>>]) => ~IsNull(g[<<c, r + 1>>])

\* C26: applyGravity leaves the occupied cells of every column contiguous at the
\* bottom, keeps the cells of each column, their contents and their order from
\* the top down, and returns true exactly when a cell is in another row than
\* before; a second application in a row changes nothing and returns false.
C26_GravitySettlesColumns ==
  /\ [](ret = "applyGravity" =>
          /\ Settled(grid)
          /\ \A c \in 0 .. GRID_COLS - 1 : ColumnCells(grid, c) = ColumnCells(preGrid, c)
          /\ hit = (\E c \in 0 .. GRID_COLS - 1 : ColumnRows(grid, c) # ColumnRows(preGrid, c)))
  /\ [][(ret = "applyGravity" /\ ret' = "applyGravity") => (grid' = grid /\ ~hit')]_vars

\* A first application has dropped two different cells of column 1 past a gap.
C26_Witness ==
  /\ ret = "applyGravity" /\ step = 1 /\ hit
  /\ IsNull(preGrid[<<1, 2>>]) /\ preGrid[<<1, 0>>] = BP /\ preGrid[<<1, 1>>] = Mult(1)
  /\ grid[<<1, 1>>] = BP /\ grid[<<1, 2>>] = Mult(1) /\ IsNull(grid[<<1, 0>>])

\* The bombs of a board.
BombsOf(g) == {p \in Pos : ~IsNull(g[p]) /\ g[p].special = "bomb"}

\* C27: fillEmpty leaves no empty slot, leaves every cell that was occupied as
\* it was, returns exactly the positions it filled, and adds one bomb, on a
\* filled position and with timer BOMB_INITIAL_TIMER, when spawnBomb is true and
\* a position was filled, and no bomb otherwise.
C27_FillEmptyFillsAll ==
  (pc = "returned" /\ ret = "fillEmpty") =>
    /\ Nulls(grid) = {}
    /\ \A p \in Pos \ Nulls(preGrid) : grid[p] = preGrid[p]
    /\ SeqRange(selectedCluster) = Nulls(preGrid)
    /\ Len(selectedCluster) = Cardinality(Nulls(preGrid))
    /\ BombsOf(preGrid) \subseteq BombsOf(grid)
    /\ Cardinality(BombsOf(grid) \ BombsOf(preGrid))
         = (IF bombQueued /\ Nulls(preGrid) # {} THEN 1 ELSE 0)
    /\ \A p \in BombsOf(grid) \ BombsOf(preGrid) :
         p \in Nulls(preGrid) /\ grid[p].bombTimer = BOMB_INITIAL_TIMER
    /\ \A p \in Nulls(preGrid) : grid[p].colorIndex \in Palette

\* A refill with spawnBomb of a board with two gaps and a bomb of its own: one
\* new cell is the bomb, the other a multiplier.
C27_Witness ==
  /\ pc = "returned" /\ ret = "fillEmpty" /\ bombQueued
  /\ Cardinality(Nulls(preGrid)) = 2 /\ BombsOf(preGrid) # {}
  /\ \E p \in Nulls(preGrid) : grid[p].special = "bomb"
  /\ \E p \in Nulls(preGrid) : grid[p].special = "multiplier"

\* offsetToAxial, and adjacency of two hexes in axial coordinates.
Axial(p) == <<p[1], p[2] - (p[1] - (p[1] % 2)) \div 2>>
HexAdjacent(p, q) ==
  <<Axial(q)[1] - Axial(p)[1], Axial(q)[2] - Axial(p)[2]>>
    \in {<<1, 0>>, <<-1, 0>>, <<0, 1>>, <<0, -1>>, <<1, -1>>, <<-1, 1>>}

Interior(p) == p[1] > 0 /\ p[1] < GRID_COLS - 1 /\ p[2] > 0 /\ p[2] < GRID_ROWS - 1

\* C28: getNeighbors(col, row) returns six different coordinates, each adjacent
\* to (col, row); all six are on the board when the cell is interior; and the
\* entries i and (i+1) mod 6 are adjacent to each other, in even and odd columns.
C28_SixNeighborsInRingOrder ==
  (pc = "returned" /\ ret = "getNeighbors") =>
    /\ Len(selectedCluster) = 6 /\ Cardinality(SeqRange(selectedCluster)) = 6
    /\ \A i \in 1 .. 6 : HexAdjacent(flowerCenter, selectedCluster[i])
    /\ \A i \in 1 .. 6 : HexAdjacent(selectedCluster[i], selectedCluster[(i % 6) + 1])
    /\ \A i \in 1 .. 6 : /\ Adjacent(selectedCluster[i], selectedCluster[(i % 6) + 1])
                          /\ Adjacent(flowerCenter, selectedCluster[i])
    /\ Interior(flowerCenter) => \A i \in 1 .. 6 : inBounds(selectedCluster[i])

\* The call for an interior cell of an odd column.
C28_Witness ==
  /\ pc = "returned" /\ ret = "getNeighbors"
  /\ flowerCenter = <<1, 2>>
  /\ \A i \in 1 .. 6 : inBounds(selectedCluster[i])

\* --------------------------------------------- colour nukes and explosions
\* The connected component of multiplier cells that holds the cells of S.
RECURSIVE MultReach(_, _)
MultReach(g, S) ==
  LET next == S \cup {q \in Pos : IsMultiplier(g[q]) /\ \E x \in S : HexAdjacent(x, q)}
  IN IF next = S THEN S ELSE MultReach(g, next)

\* The multiplier clusters of a board, the colours of a set of cells, and the
\* pending set once the clusters are merged into the matches.
MultClusters(g) ==
  {cl \in {MultReach(g, {p}) : p \in {x \in Pos : IsMultiplier(g[x])}} :
     Cardinality(cl) >= MIN_CLUSTER}
ColorsIn(g, S) == {g[p].colorIndex : p \in S}
Merged(g, matches) == matches \cup UNION MultClusters(g)

\* Colour k is nuked: a cluster is of colour k only, or the pending set holds a
\* bomb and a multiplier of colour k.
Nuked(g, matches, k) ==
  \/ \E cl \in MultClusters(g) : ColorsIn(g, cl) = {k}
  \/ /\ \E p \in Merged(g, matches) : g[p].special = "bomb" /\ g[p].colorIndex = k
     /\ \E p \in Merged(g, matches) : g[p].special = "multiplier" /\ g[p].colorIndex = k

\* The explosion sources (members of clusters of more than one colour) and the
\* occupied cells next to a source that are not black pearls.
Sources(g) == UNION {cl \in MultClusters(g) : Cardinality(ColorsIn(g, cl)) > 1}
Blast(g) ==
  {n \in Pos : /\ ~IsNull(g[n]) /\ g[n].special # "blackpearl"
               /\ \E src \in Sources(g) : HexAdjacent(src, n)}

\* C29: the head of runCascade adds every cell of a nuked colour to the cleared
\* set, and a cell that is neither in the merged pending set nor hit by an
\* explosion is added only if its colour is nuked and is not a starflower or a
\* black pearl.
C29_ColourNuke ==
  [][(pc = "cascade" /\ pc' = "clear") =>
       \A p \in Pos \ Nulls(grid) :
         /\ (grid[p].colorIndex >= 0 /\ Nuked(grid, pendingMatches, grid[p].colorIndex))
              => p \in pendingMatches'
         /\ (p \in pendingMatches' /\ p \notin Merged(grid, pendingMatches) \cup Blast(grid))
              => /\ Nuked(grid, pendingMatches, grid[p].colorIndex)
                 /\ ~IsBlocker(grid[p])]_vars

\* A run of column 1 with a bomb and a multiplier of colour 0 has nuked the
\* colour: a colour-0 cell outside the pending set is cleared, the starflower
\* next to it is not.
C29_Witness ==
  /\ pc = "clear" /\ ret = "findMatchesForMode"
  /\ grid[<<1, 1>>] = Bomb(0, 3) /\ grid[<<1, 0>>] = Mult(0)
  /\ grid[<<2, 1>>] = A /\ grid[<<2, 2>>] = SF
  /\ <<2, 1>> \notin Merged(grid, findMatchesForMode(grid, matchMode))
  /\ <<2, 1>> \in pendingMatches /\ <<2, 2>> \notin pendingMatches

\* C30: every member of a multiplier cluster of more than one colour is an
\* explosion source: each occupied cell next to a source is added to the cleared
\* set unless it is a black pearl, starflowers included, and no black pearl is
\* ever in the cleared set.
C30_Explosion ==
  [][(pc = "cascade" /\ pc' = "clear") =>
       /\ Sources(grid) \subseteq pendingMatches'
       /\ Blast(grid) \subseteq pendingMatches'
       /\ \A n \in Pos : (grid[n] = Starflower /\ \E src \in Sources(grid) : HexAdjacent(src, n))
                           => n \in pendingMatches'
       /\ \A n \in pendingMatches' : grid[n].special # "blackpearl"]_vars

\* A cluster of colours 0 and 1 has exploded next to a starflower and a black
\* pearl: the starflower is cleared, the pearl is not.
C30_Witness ==
  /\ pc = "clear" /\ ret = "findMatchesForMode"
  /\ grid[<<1, 0>>] = Mult(0) /\ grid[<<1, 1>>] = Mult(1) /\ grid[<<2, 1>>] = Mult(0)
  /\ grid[<<2, 2>>] = SF /\ grid[<<1, 2>>] = BP
  /\ {<<1, 0>>, <<1, 1>>, <<2, 1>>} \subseteq Sources(grid)
  /\ <<2, 2>> \in pendingMatches /\ <<1, 2>> \notin pendingMatches

\* ------------------------------------------------------------ cascade score
\* The base points of a cleared set of n cells.
BasePoints(n) == CASE n = 3 -> 5 [] n = 4 -> 10 [] n = 5 -> 20 [] OTHER -> 10 * n

\* round(base(n) * 1.5^chain * bonus), the bonus given in halves: the integer k
\* with k - 1/2 <= base(n) * 3^chain * bonus2 / 2^(chain+1) < k + 1/2.
RoundedPoints(n, bonus2, chain) ==
  LET num == BasePoints(n) * Pow(3, chain) * bonus2
      den == Pow(2, chain + 1)
  IN CHOOSE k \in 0 .. num : (2 * k - 1) * den <= 2 * num /\ 2 * num < (2 * k + 1) * den

RefillOutcomes == Refill(grid, gameMode, bombQueued)

Around(p) == {q \in Pos : HexAdjacent(p, q)}

\* p is the centre of a starflower formation of board g: an occupied cell, no
\* starflower or black pearl, with six neighbours on the board, all occupied,
\* none a starflower or black pearl, all of one colour R >= 0 other than p's.
StarflowerCentre(g, p) ==
  /\ ~IsNull(g[p]) /\ ~IsBlocker(g[p])
  /\ Cardinality(Around(p)) = 6
  /\ \A q \in Around(p) : ~IsNull(g[q]) /\ ~IsBlocker(g[q])
  /\ \E R \in Palette : R # g[p].colorIndex /\ \A q \in Around(p) : g[q].colorIndex = R

PearlCentre(g, p) ==
  /\ ~IsNull(g[p]) /\ g[p].special # "blackpearl"
  /\ Cardinality(Around(p)) = 6
  /\ \A q \in Around(p) : g[q].special = "starflower"

\* C34: detectBlackPearls reports a cell exactly when it is the centre of a
\* black-pearl formation of the board it is called on, the centre a regular cell
\* or a starflower; a cell with five or fewer starflowers around it and a cell
\* that is a black pearl already are not reported.
C34_PearlDetection ==
  (pc = "detect" /\ ret = "bp" /\ step >= 1) =>
    /\ {bpResults[k].center : k \in 1 .. Len(bpResults)}
         = {p \in Pos : PearlCentre(preGrid, p)}
    /\ Len(bpResults) = Cardinality({p \in Pos : PearlCentre(preGrid, p)})

\* p is a gap of the cleared board (g without the cells of cleared) in which a
\* starflower is born: six neighbours on the board, none of them cleared, all
\* occupied, none a starflower, all of one palette colour.
GapCentre(g, cleared, p) ==
  /\ p \in cleared
  /\ Cardinality(Around(p)) = 6
  /\ \A q \in Around(p) : q \notin cleared /\ ~IsNull(g[q]) /\ g[q].special # "starflower"
  /\ \E R \in Palette : \A q \in Around(p) : g[q].colorIndex = R

\* C35: the clear step of a cascade empties the cells of the cleared set and
\* puts a fresh starflower (colour -1, no timer) into exactly those cleared
\* positions whose six neighbours are on the board, not cleared, occupied, not
\* starflowers and of one colour >= 0, reporting each of them; the cells outside
\* the cleared set stay as they are.
C35_BirthAtClearedGap ==
  [][pc = "clear" =>
       /\ \A p \in Pos :
            grid'[p] = (IF GapCentre(grid, pendingMatches, p) THEN Starflower
                        ELSE IF p \in pendingMatches THEN Empty
                        ELSE grid[p])
       /\ LET born == {p \in Pos : GapCentre(grid, pendingMatches, p)}
          IN /\ born # {} => /\ pc' = "sfCreate"
                             /\ {sfResults'[k].center : k \in 1 .. Len(sfResults')} = born
                             /\ Len(sfResults') = Cardinality(born)
             /\ born = {} => pc' = "gravity" /\ sfResults' = sfResults]_vars

\* A clear has left a starflower in the cleared centre and gaps at the other
\* cleared positions.
C35_Witness ==
  /\ pc = "sfCreate" /\ ret = "mid" /\ Len(sfResults) = 1
  /\ MidCenter \in pendingMatches /\ grid[MidCenter] = Starflower
  /\ \E p \in pendingMatches : IsNull(grid[p])

\* C36: the score bonus of a cascade iteration, in halves, is 2 plus the sizes
\* of the multiplier clusters of the board plus the number of multipliers in
\* the pending set after the clusters are merged into it; multipliers that only
\* a colour nuke or an explosion adds to the cleared set add nothing.
C36_ScoreBonus ==
  [][(pc = "cascade" /\ pc' = "clear") =>
       scoreBonus' = 2 + Cardinality(UNION MultClusters(grid))
                       + Cardinality({p \in Merged(grid, pendingMatches) :
                                        grid[p].special = "multiplier"})]_vars

\* A run of column 1 with a bomb between two multipliers has nuked colour 0: the
\* multiplier at (2,1) is cleared by the nuke and the bonus counts the two of
\* the run only.
C36_Witness ==
  /\ pc = "clear" /\ ret = "findMatchesForMode"
  /\ grid[<<1, 0>>] = Mult(0) /\ grid[<<1, 1>>] = Bomb(0, 3) /\ grid[<<1, 2>>] = Mult(0)
  /\ grid[<<2, 1>>] = Mult(0) /\ grid[<<2, 2>>] = A
  /\ <<2, 1>> \in pendingMatches
  /\ scoreBonus = 4

\* ------------------------------------------------- the pending-action slot
\* The game loop runs a frame that takes the pending action out of its slot.
gameLoopFrame == gameLoopSelect \/ gameLoopRotate \/ gameLoopDrop

Expiring(g) == {p \in Bombs(g) : g[p].bombTimer <= 1}

\* C38: bomb timers are decremented only by the per-move check (any other step
\* of a session leaves on the board bombs it found there or fresh ones), which
\* runs when the rotation loop has stopped and before any match of the rotated board is
\* resolved.  In arcade a bomb that reaches 0 there ends the game, also when
\* the rotated board holds a match that includes this bomb: the move goes to
\* game over with no cascade, the score and the bomb-queued flag as they were.
C38_ExpiryBeforeMatches ==
  /\ [][(pc # "post" /\ ~ResetStep)
          => \A p \in Bombs(grid') :
               \/ grid'[p].bombTimer = BOMB_INITIAL_TIMER
               \/ \E q \in Bombs(grid) : grid[q] = grid'[p]]_vars
  /\ [][(pc' = "post" /\ pc # "post") => pc = "rotating"]_vars
  /\ [][(pc' = "resolve" /\ pc # "resolve") => pc = "post"]_vars
  /\ [][(pc = "post" /\ gameMode = "arcade" /\ Expiring(grid) # {})
          => (/\ pc' = "over"
              /\ UNCHANGED <<score, bombQueued, pendingMatches, state>>)]_vars
  /\ [][pc = "over"
          => (/\ pc' = "loop" /\ state' = "gameover"
              /\ UNCHANGED <<score, bombQueued, pendingMatches>>)]_vars

\* The move has ended in game over on a rotated board whose line match holds the
\* expired bomb.
C38_Witness ==
  /\ pc = "over" /\ gameMode = "arcade" /\ matchMode = "line" /\ hit
  /\ \E p \in MatchedBombs(grid) : grid[p].bombTimer = 0
  /\ findMatchesForMode(grid, matchMode) # {}

\* --------------------------------------------------- no match at move end
\* The step that ends a move: control returns to the game loop in a state that
\* accepts input.
MoveEnds == InMove /\ pc' = "loop" /\ state' \in {"idle", "selected"}

\* C39: whenever a move finishes and the state returns to 'idle' or 'selected',
\* the board holds no match for the active match mode: a cascade ends, in
\* 'idle', only from the search that follows the refill and the post-settle
\* births, and a rotation returns to 'selected' only from the per-move check.
C39_NoMatchAtMoveEnd ==
  /\ [][MoveEnds => (/\ findMatchesForMode(grid', matchMode') = {}
                     /\ ~HasEmpty(grid'))]_vars
  /\ [][(MoveEnds /\ state' = "idle") => pc \in {"gravity", "sfFill", "bpFill"}]_vars
  /\ [][(MoveEnds /\ state' = "selected") => pc = "resolve"]_vars

\* A move whose cascade scored has ended in 'idle' on a full board.
C39_Witness ==
  /\ pc = "loop" /\ state = "idle" /\ turns = 1 /\ resets = 0 /\ score > 0
  /\ findMatchesForMode(grid, matchMode) = {} /\ ~HasEmpty(grid)
  /\ grid # preGrid

\* ------------------------------------------------------ black pearls stay
\* The session goes on in this step: no game over, no new game, no other
\* mode's board.
InSession == ~ResetStep /\ pc # "over" /\ <<gameMode', matchMode'>> = <<gameMode, matchMode>>

\* C40: a black pearl is never removed during play.  The cleared set of a
\* cascade (matches, colour nuke, explosion) holds no black pearl, the rings
\* cleared for a starflower or absorbed by a pearl hold none, and in every step
\* of a session the number of black pearls on the board does not decrease;
\* a rotation step and gravity keep it as it is but for a birth.
C40_PearlsStay ==
  /\ [][InSession => Cardinality(Pearls(grid')) >= Cardinality(Pearls(grid))]_vars
  /\ [][pc = "clear" => pendingMatches \cap Pearls(grid) = {}]_vars
  /\ [][(pc \in {"sfCreate", "bpCreate"} /\ InSession)
          => Pearls(grid) \subseteq Pearls(grid')]_vars
  /\ [][(pc \in {"rotating", "gravity"} /\ InSession)
          => \/ Cardinality(Pearls(grid')) = Cardinality(Pearls(grid))
             \/ pc' \in {"post", "bpCreate"}]_vars

\* A cascade has cleared cells next to a black pearl and the pearl is on the
\* board when the cleared cells are refilled.
C40_Witness ==
  /\ pc = "gravity" /\ Pearls(grid) # {}
  /\ \E p \in Pearls(grid) : \E q \in pendingMatches : HexAdjacent(p, q)

====
